---- MODULE Spec2Model ----
(***************************************************************************)
(* Verification model of the SwiftDevBot kernel core:                      *)
(*   core/registry.py  (Registry)                                          *)
(*   core/events.py    (EventManager)                                      *)
(*   core/kernel.py    (Kernel), core/module_api.py (ModuleAPI)            *)
(*                                                                         *)
(* The program runs on one asyncio event loop.  A coroutine runs without   *)
(* interruption until it reaches an await that really suspends; every      *)
(* action below is one such uninterrupted run of one coroutine.            *)
(***************************************************************************)
EXTENDS Integers, Sequences, FiniteSets, TLC

(***************************************************************************)
(* Bounds of the model.                                                    *)
(***************************************************************************)
NumTasks == 2
MaxCalls == 5
MaxClock == 1
MaxLockGen == 2

Tasks == 1..NumTasks

(***************************************************************************)
(* Input domains.                                                          *)
(***************************************************************************)
ServiceNames == {"db", "cache"}
\* service objects: "svc" exposes a cleanup() coroutine, "obj" does not
Instances == {"svc", "obj"}
Metadatas == {"None", "md"}
Commands == {"admin"}
EventTypes == {"evt"}
ModuleNames == {"m1", "m2"}
Callables == {"h1", "h2"}

NoLock == 0
LockGens == 1..MaxLockGen

VARIABLES
    services,   \* Registry._services, an insertion-ordered dict
    commands,   \* Registry._commands
    handlers,   \* Registry._handlers
    modules,    \* Registry._modules
    locks,      \* Registry._locks: key -> lock object (NoLock: key absent)
    lockObj,    \* the asyncio.Lock objects that are still referenced
    clock,      \* the value datetime.now() returned last
    task,       \* per coroutine: its position and its local variables
    calls,      \* number of Registry calls issued so far
    last,       \* the call that completed in the step just taken, if one did
    ev_handlers,  \* EventManager._handlers: event name -> list (<<>>: key absent)
    middleware,   \* EventManager._middleware
    history,      \* EventManager._history
    emitter,      \* per emit() coroutine: its position and its local variables
    waiter,       \* per wait_for() coroutine: its position, its future, its locals
    ev_calls,     \* number of EventManager calls issued so far
    ev_last,      \* the EventManager call that completed in the step just taken
    k_running,    \* Kernel._running
    k_token,      \* Kernel._token
    k_services,   \* Kernel._services, the Service Container
    k_modules,    \* Kernel._modules, an insertion-ordered dict
    k_bot,        \* Kernel._bot, the platform connection
    k_task,       \* per Kernel coroutine: its position and its local variables
    k_calls,      \* number of Kernel calls issued so far
    k_last,       \* the Kernel call that completed in the step just taken
    sv_running,   \* BaseService._running
    sv_queue,     \* BaseService._queue: the asyncio.Queue object (0: None)
    sv_process,   \* BaseService._process_task: the worker task (0: None)
    sv_q,         \* the asyncio.Queue objects: their items and unfinished tasks
    sv_worker,    \* the tasks running _process_queue: position and locals
    sv_stats,     \* BaseService._stats
    sv_task,      \* per stop() coroutine: its position and what it awaits
    sv_calls,     \* number of BaseService calls issued so far
    sv_last       \* the BaseService call that completed in the step just taken

regVars == <<services, commands, handlers, modules, locks, lockObj, clock,
             task, calls, last>>

evVars == <<ev_handlers, middleware, history, emitter, waiter, ev_calls, ev_last>>

kVars == <<k_running, k_token, k_services, k_modules, k_bot, k_task, k_calls, k_last>>

svVars == <<sv_running, sv_queue, sv_process, sv_q, sv_worker, sv_stats, sv_task,
            sv_calls, sv_last>>

vars == <<services, commands, handlers, modules, locks, lockObj, clock,
          task, calls, last,
          ev_handlers, middleware, history, emitter, waiter, ev_calls, ev_last,
          k_running, k_token, k_services, k_modules, k_bot, k_task, k_calls, k_last,
          sv_running, sv_queue, sv_process, sv_q, sv_worker, sv_stats, sv_task,
          sv_calls, sv_last>>

(***************************************************************************)
(* Helpers on the insertion-ordered dict of services.                      *)
(***************************************************************************)
\* hooks counts, per registration, the invocations of the service's cleanup()
Absent == [module |-> "-", handler |-> "-", instance |-> "-", metadata |-> "-", registered_at |-> -1, hooks |-> 0]

RECURSIVE Lookup(_, _)
Lookup(d, name) ==
    IF d = <<>> THEN Absent
    ELSE IF Head(d).name = name THEN Head(d).entry
    ELSE Lookup(Tail(d), name)

Has(d, name) == \E i \in 1..Len(d) : d[i].name = name

Keys(d) == [i \in 1..Len(d) |-> d[i].name]

\* d[name] = entry: an existing key keeps its position, a new key is appended
Put(d, name, entry) ==
    IF Has(d, name)
    THEN [i \in 1..Len(d) |-> IF d[i].name = name THEN [name |-> name, entry |-> entry] ELSE d[i]]
    ELSE Append(d, [name |-> name, entry |-> entry])

\* del d[name]
Del(d, name) == SelectSeq(d, LAMBDA e : e.name # name)

\* metadata or {}
MetaOr(metadata) == IF metadata = "None" THEN "{}" ELSE metadata

\* hasattr(service, 'cleanup')
HasCleanup(service) == service = "svc"

\* datetime.now(): never before the value it returned last
Now == {c \in {clock, clock + 1} : c <= MaxClock}

(***************************************************************************)
(* Registry getters.                                                       *)
(***************************************************************************)
\* d.get(name, {}).get('instance')
InstanceIn(d, name) == IF Has(d, name) THEN Lookup(d, name).instance ELSE "None"

get_service(name) == InstanceIn(services, name)

get_command_handler(command) == IF commands[command] = Absent THEN "None" ELSE commands[command].handler

get_handlers(event_type) == [i \in 1..Len(handlers[event_type]) |-> handlers[event_type][i].handler]

(***************************************************************************)
(* asyncio.Lock, and Registry._get_lock.  The registry state is threaded   *)
(* through the helpers as a record S so that a coroutine that does not     *)
(* suspend between two calls runs them in one step.                        *)
(***************************************************************************)
LockKeys == ({"service"} \X ServiceNames) \cup ({"command"} \X Commands)
            \cup ({"handler"} \X EventTypes) \cup ({"module"} \X ModuleNames)

FreeLock == [locked |-> FALSE, waiters |-> <<>>, woken |-> FALSE]

Cur == [services |-> services, commands |-> commands, handlers |-> handlers,
        modules |-> modules, locks |-> locks, lockObj |-> lockObj,
        clock |-> clock]

LockKeyOf(op, key) ==
    CASE op \in {"register_service", "unregister_service", "cleanup"} -> <<"service", key>>
      [] op = "register_command" -> <<"command", key>>
      [] op = "register_handler" -> <<"handler", key>>
      [] OTHER -> <<"module", key>>

\* lock objects of key k that some suspended coroutine still refers to
HeldGens(k) == {task[t].lock : t \in {u \in Tasks : task[u].pc # "idle" /\ LockKeyOf(task[u].op, task[u].key) = k}}

FreshGens(k) == LockGens \ HeldGens(k)

Min(s) == CHOOSE x \in s : \A y \in s : x <= y

\* can _get_lock(k) be served within the bound on lock objects
CanGetLock(S, k) == S.locks[k] # NoLock \/ FreshGens(k) # {}

\* _get_lock: the lock object of key k, created when the key is not in _locks
GetLockGen(S, k) == IF S.locks[k] # NoLock THEN S.locks[k] ELSE Min(FreshGens(k))

GetLockState(S, k) == [S EXCEPT !.locks[k] = GetLockGen(S, k)]

\* asyncio.Lock.acquire takes the lock without suspending iff it is free and nobody waits
CanEnter(S, k, g) == ~S.lockObj[<<k, g>>].locked /\ S.lockObj[<<k, g>>].waiters = <<>>

Locked(S, k, g) == [S EXCEPT !.lockObj[<<k, g>>].locked = TRUE]

Enqueued(S, k, g, t) == [S EXCEPT !.lockObj[<<k, g>>].waiters = Append(@, t)]

\* asyncio.Lock.release: unlock and wake the first waiter
Release(S, k, g) ==
    [S EXCEPT !.lockObj[<<k, g>>] = [locked |-> FALSE, waiters |-> @.waiters, woken |-> @.waiters # <<>>]]

\* the woken waiter resumes in acquire: it leaves the queue and takes the lock
Resumed(S, k, g) ==
    [S EXCEPT !.lockObj[<<k, g>>] = [locked |-> TRUE, waiters |-> Tail(@.waiters), woken |-> FALSE]]

IdleTask == [pc |-> "idle", op |-> "-", key |-> "-", inst |-> "-", mod |-> "-", meta |-> "-", lock |-> NoLock, todo |-> <<>>]

\* where a coroutine stands after a run: st is "ret" (returned val), "raise"
\* (raised val), "hook" (suspended in service.cleanup(), holding lock g of key),
\* "wait" (suspended in lock.acquire()) or "blocked" (outside the model's bounds)
Res(S, st, val, key, g, todo) == [S |-> S, st |-> st, val |-> val, key |-> key, g |-> g, todo |-> todo]

(***************************************************************************)
(* The locked sections of the Registry operations.  S is the state with    *)
(* the lock <<k, g>> held; the result is the state after the section.      *)
(***************************************************************************)
RegisterServiceSection(S, name, service, metadata, now) ==
    [S EXCEPT !.services = Put(@, name, [Absent EXCEPT !.instance = service,
                                                       !.metadata = MetaOr(metadata),
                                                       !.registered_at = now]),
              !.clock = now]

\* register_command without its "command in self._commands" test
RegisterCommandOverwrites(S, module_name, command, handler, metadata, now) ==
    [S |-> [S EXCEPT !.commands[command] = [Absent EXCEPT !.module = module_name,
                                                        !.handler = handler,
                                                        !.metadata = MetaOr(metadata),
                                                        !.registered_at = now],
                    !.clock = now],
     val |-> "True"]

RegisterCommandSection(S, module_name, command, handler, metadata, now) ==
    IF S.commands[command] # Absent
    THEN [S |-> S, val |-> "False"]
    ELSE [S |-> [S EXCEPT !.commands[command] = [Absent EXCEPT !.module = module_name,
                                                              !.handler = handler,
                                                              !.metadata = MetaOr(metadata),
                                                              !.registered_at = now],
                          !.clock = now],
          val |-> "True"]

RegisterHandlerSection(S, module_name, event_type, handler, now) ==
    LET handler_info == [module |-> module_name, handler |-> handler, registered_at |-> now]
        T == [S EXCEPT !.clock = now]
    IN  IF \A i \in 1..Len(S.handlers[event_type]) : S.handlers[event_type][i] # handler_info
        THEN [S |-> [T EXCEPT !.handlers[event_type] = Append(@, handler_info)], val |-> "True"]
        ELSE [S |-> T, val |-> "False"]

RegisterModuleSection(S, name, module, metadata, now) ==
    IF S.modules[name] # Absent
    THEN [S |-> S, val |-> "False"]
    ELSE [S |-> [S EXCEPT !.modules[name] = [Absent EXCEPT !.instance = module,
                                                         !.metadata = MetaOr(metadata),
                                                         !.registered_at = now],
                          !.clock = now],
          val |-> "True"]

\* unregister_service from the lock's acquisition to its first await
UnregisterSection(S, name, k, g) ==
    IF Has(S.services, name)
    THEN LET service == Lookup(S.services, name).instance
         IN  IF HasCleanup(service)
             THEN Res([S EXCEPT !.services = Put(@, name, [Lookup(@, name) EXCEPT !.hooks = @ + 1])],
                      "hook", service, name, g, <<>>)
             ELSE Res(Release([S EXCEPT !.services = Del(@, name)], k, g), "ret", "True", name, g, <<>>)
    ELSE Res(Release(S, k, g), "ret", "False", name, g, <<>>)

\* unregister_service after service.cleanup() has returned: del self._services[name]
UnregisterAfterHook(S, name, k, g) ==
    IF Has(S.services, name)
    THEN Res(Release([S EXCEPT !.services = Del(@, name)], k, g), "ret", "True", name, g, <<>>)
    ELSE Res(Release(S, k, g), "raise", "KeyError", name, g, <<>>)

\* unregister_service from its call to its first suspension or its return
UnregisterStart(S, t, name) ==
    LET k == <<"service", name>>
    IN  IF ~CanGetLock(S, k) THEN Res(S, "blocked", "-", name, NoLock, <<>>)
        ELSE LET g == GetLockGen(S, k)
                 S1 == GetLockState(S, k)
             IN  IF CanEnter(S1, k, g)
                 THEN UnregisterSection(Locked(S1, k, g), name, k, g)
                 ELSE Res(Enqueued(S1, k, g, t), "wait", "-", name, g, <<>>)

\* the end of Registry.cleanup: the four clear() calls
ClearMaps(S) ==
    [S EXCEPT !.commands = [c \in Commands |-> Absent],
              !.handlers = [e \in EventTypes |-> <<>>],
              !.modules = [m \in ModuleNames |-> Absent],
              !.locks = [k \in LockKeys |-> NoLock]]

\* Registry.cleanup from the unregistration of Head(todo) on
RECURSIVE CleanupLoop(_, _, _)
CleanupLoop(S, t, todo) ==
    IF todo = <<>> THEN Res(ClearMaps(S), "ret", "None", "-", NoLock, <<>>)
    ELSE LET r == UnregisterStart(S, t, Head(todo))
         IN  IF r.st = "ret" THEN CleanupLoop(r.S, t, Tail(todo))
             ELSE [r EXCEPT !.todo = Tail(todo)]

\* an unregister_service that has returned inside cleanup lets the loop go on
Continue(r, t, c) ==
    IF c.op = "cleanup" /\ r.st = "ret" THEN CleanupLoop(r.S, t, c.todo) ELSE r

\* the locked section of call c, entered with lock <<k, g>> held
Section(S, t, c, k, g, now) ==
    CASE c.op = "register_service" ->
            Res(Release(RegisterServiceSection(S, c.key, c.inst, c.meta, now), k, g), "ret", "True", c.key, g, <<>>)
      [] c.op = "register_command" ->
            LET r == RegisterCommandSection(S, c.mod, c.key, c.inst, c.meta, now)
            IN  Res(Release(r.S, k, g), "ret", r.val, c.key, g, <<>>)
      [] c.op = "register_handler" ->
            LET r == RegisterHandlerSection(S, c.mod, c.key, c.inst, now)
            IN  Res(Release(r.S, k, g), "ret", r.val, c.key, g, <<>>)
      [] c.op = "register_module" ->
            LET r == RegisterModuleSection(S, c.key, c.inst, c.meta, now)
            IN  Res(Release(r.S, k, g), "ret", r.val, c.key, g, <<>>)
      [] OTHER -> Continue(UnregisterSection(S, c.key, k, g), t, c)

\* lock = self._get_lock(key); async with lock: ...
Start(S, t, c, now) ==
    LET k == LockKeyOf(c.op, c.key)
    IN  IF ~CanGetLock(S, k) THEN Res(S, "blocked", "-", c.key, NoLock, <<>>)
        ELSE LET g == GetLockGen(S, k)
                 S1 == GetLockState(S, k)
             IN  IF CanEnter(S1, k, g)
                 THEN Section(Locked(S1, k, g), t, c, k, g, now)
                 ELSE Res(Enqueued(S1, k, g, t), "wait", "-", c.key, g, <<>>)

(***************************************************************************)
(* Writing a run's result back.                                            *)
(***************************************************************************)
Commit(S) ==
    /\ services' = S.services
    /\ commands' = S.commands
    /\ handlers' = S.handlers
    /\ modules' = S.modules
    /\ locks' = S.locks
    /\ lockObj' = S.lockObj
    /\ clock' = S.clock

\* last: op(key, inst, mod) ended by st ("ret": it returned val, "raise": it raised val)
NoReturn == [op |-> "-", key |-> "-", inst |-> "-", mod |-> "-", st |-> "-", val |-> "-"]

Apply(t, c, r) ==
    /\ r.st # "blocked"
    /\ Commit(r.S)
    /\ UNCHANGED <<evVars, kVars, svVars>>
    /\ IF r.st \in {"ret", "raise"}
       THEN /\ task' = [task EXCEPT ![t] = IdleTask]
            /\ last' = [op |-> c.op, key |-> IF c.op = "cleanup" THEN "-" ELSE c.key,
                        inst |-> c.inst, mod |-> c.mod, st |-> r.st, val |-> r.val]
       ELSE /\ task' = [task EXCEPT ![t] = [c EXCEPT !.pc = r.st, !.key = r.key, !.lock = r.g,
                                                     !.todo = r.todo,
                                                     !.inst = IF r.st = "hook" THEN r.val ELSE c.inst]]
            /\ last' = NoReturn

\* a new coroutine takes the first free slot
Free(t) == task[t].pc = "idle" /\ \A u \in Tasks : u < t => task[u].pc # "idle"

Call(op, key, inst, mod, meta) ==
    [IdleTask EXCEPT !.op = op, !.key = key, !.inst = inst, !.mod = mod, !.meta = meta]

(***************************************************************************)
(* The Registry operations.                                                *)
(***************************************************************************)
\* register_service without its "name in self._services" test
RegisterServiceUnchecked(t, name, service, metadata) ==
    /\ Free(t) /\ calls < MaxCalls
    /\ calls' = calls + 1
    /\ LET c == Call("register_service", name, service, "-", metadata)
       IN  \E now \in Now : Apply(t, c, Start(Cur, t, c, now))

RegisterService(t, name, service, metadata) ==
    /\ Free(t) /\ calls < MaxCalls
    /\ calls' = calls + 1
    /\ LET c == Call("register_service", name, service, "-", metadata)
       IN  IF Has(services, name)
           THEN Apply(t, c, Res(Cur, "ret", "False", name, NoLock, <<>>))
           ELSE \E now \in Now : Apply(t, c, Start(Cur, t, c, now))

UnregisterService(t, name) ==
    /\ Free(t) /\ calls < MaxCalls
    /\ calls' = calls + 1
    /\ LET c == Call("unregister_service", name, "-", "-", "-")
       IN  Apply(t, c, Start(Cur, t, c, clock))

RegisterCommand(t, module_name, command, handler, metadata) ==
    /\ Free(t) /\ calls < MaxCalls
    /\ calls' = calls + 1
    /\ LET c == Call("register_command", command, handler, module_name, metadata)
       IN  \E now \in Now : Apply(t, c, Start(Cur, t, c, now))

RegisterHandler(t, module_name, event_type, handler) ==
    /\ Free(t) /\ calls < MaxCalls
    /\ calls' = calls + 1
    /\ LET c == Call("register_handler", event_type, handler, module_name, "-")
       IN  \E now \in Now : Apply(t, c, Start(Cur, t, c, now))

RegisterModule(t, name, module, metadata) ==
    /\ Free(t) /\ calls < MaxCalls
    /\ calls' = calls + 1
    /\ LET c == Call("register_module", name, module, "-", metadata)
       IN  \E now \in Now : Apply(t, c, Start(Cur, t, c, now))

Cleanup(t) ==
    /\ Free(t) /\ calls < MaxCalls
    /\ calls' = calls + 1
    /\ LET c == Call("cleanup", "-", "-", "-", "-")
       IN  Apply(t, c, CleanupLoop(Cur, t, Keys(services)))

\* a coroutine woken by Lock.release resumes inside acquire and enters its section
LockAcquired(t) ==
    LET c == task[t]
        k == LockKeyOf(c.op, c.key)
    IN  /\ c.pc = "wait"
        /\ lockObj[<<k, c.lock>>].woken
        /\ Head(lockObj[<<k, c.lock>>].waiters) = t
        /\ calls' = calls
        /\ \E now \in Now : Apply(t, c, Section(Resumed(Cur, k, c.lock), t, c, k, c.lock, now))

\* service.cleanup() returns to unregister_service
HookReturns(t) ==
    LET c == task[t]
        k == LockKeyOf(c.op, c.key)
    IN  /\ c.pc = "hook"
        /\ calls' = calls
        /\ Apply(t, c, Continue(UnregisterAfterHook(Cur, c.key, k, c.lock), t, c))

\* service.cleanup() raises: async with releases the lock and the error propagates
HookRaises(t) ==
    LET c == task[t]
        k == LockKeyOf(c.op, c.key)
    IN  /\ c.pc = "hook"
        /\ calls' = calls
        /\ Apply(t, c, Res(Release(Cur, k, c.lock), "raise", "hook", c.key, c.lock, <<>>))

InitRegistry ==
    /\ services = <<>>
    /\ commands = [c \in Commands |-> Absent]
    /\ handlers = [e \in EventTypes |-> <<>>]
    /\ modules = [m \in ModuleNames |-> Absent]
    /\ locks = [k \in LockKeys |-> NoLock]
    /\ lockObj = [r \in LockKeys \X LockGens |-> FreeLock]
    /\ clock = 0
    /\ task = [t \in Tasks |-> IdleTask]
    /\ calls = 0
    /\ last = NoReturn

(***************************************************************************)
(* EventManager (core/events.py).  emit() is suspended while it awaits a   *)
(* middleware or a handler; subscribe, unsubscribe and the other           *)
(* synchronous methods run while it is suspended, called by the awaited    *)
(* callable itself or by any other coroutine.                              *)
(***************************************************************************)
MaxEvCalls == 4
\* EventManager._max_history, scaled down
max_history == 2

EventNames == {"ping", "pong"}
MiddlewareIds == {"mw1", "mw2"}
Datas == {"d0", "d1"}

\* Python's None where an Event is expected
NoEvent == [id |-> 0, name |-> "-", data |-> "-", processed |-> FALSE, results |-> <<>>]

Event(id, name, data) ==
    [id |-> id, name |-> name, data |-> data, processed |-> FALSE, results |-> <<>>]

\* trace: the callables this emission has invoked so far, in order
\* veto: length of trace when a middleware returned no event (0: none did)
\* detached, lst: the list object being iterated is no longer self._handlers[name]
\* out: how each callable of trace ended ("ret", "raise", "veto")
\* start: self._handlers[name] when the handler loop started
\* changed: the handlers of name were changed during the handler loop, other
\*          than by the running handler unsubscribing itself (selfun)
IdleEmitter ==
    [pc |-> "idle", name |-> "-", event |-> NoEvent, idx |-> 0, cur |-> "-",
     detached |-> FALSE, lst |-> <<>>, trace |-> <<>>, veto |-> 0,
     out |-> <<>>, start |-> <<>>, changed |-> FALSE, selfun |-> FALSE]

\* wait_for(event_name, timeout); timeout "T" is some finite time
Timeouts == {"None", "T"}

\* the one-shot handler that the wait_for() coroutine t defines
WaitHandlerIds == <<"w1", "w2", "w3", "w4">>

WaitHandler(t) == WaitHandlerIds[t]

IsWaitHandler(h) == \E t \in Tasks : WaitHandler(t) = h

WaiterOf(h) == CHOOSE t \in Tasks : WaitHandler(t) = h

\* pc: "pending" (the future is not done), "resolved" (it has its result),
\*     "cancelled" (the timeout cancelled it), "done" (wait_for has ended; the
\*     record keeps what the call was)
\* before, at: self._handlers and the number of calls when wait_for was called
IdleWaiter ==
    [pc |-> "idle", name |-> "-", timeout |-> "None", event |-> NoEvent,
     before |-> [n \in EventNames |-> <<>>], at |-> 0]

EvCur ==
    [handlers |-> ev_handlers, middleware |-> middleware, history |-> history,
     em |-> emitter, wt |-> waiter]

EvRes(E, e, st, val) == [E |-> E, e |-> e, st |-> st, val |-> val]

Contains(seq, x) == \E i \in 1..Len(seq) : seq[i] = x

IndexOf(seq, x) == CHOOSE i \in 1..Len(seq) : seq[i] = x /\ \A j \in 1..(i - 1) : seq[j] # x

\* list.remove(x): removes the first occurrence
Remove(seq, x) ==
    LET i == IndexOf(seq, x)
    IN  SubSeq(seq, 1, i - 1) \o SubSeq(seq, i + 1, Len(seq))

\* _add_to_history without the pop(0) of the oldest entry
add_to_history_unbounded(h, event) == Append(h, event)

add_to_history(h, event) ==
    LET a == Append(h, event)
    IN  IF Len(a) > max_history THEN Tail(a) ELSE a

\* lines 84-85: the events of h named event_name
HistoryOf(h, event_name) == SelectSeq(h, LAMBDA e : e.name = event_name)

get_history(event_name) == HistoryOf(history, event_name)

\* emit returns the event without recording it
FinishUnrecorded(E, e) ==
    EvRes(E, e, "ret", [e.event EXCEPT !.processed = TRUE])

\* lines 50-52: the emission completes
Finish(E, e) ==
    LET event == [e.event EXCEPT !.processed = TRUE]
    IN  EvRes([E EXCEPT !.history = add_to_history(E.history, event)], e, "ret", event)

\* the list object the handler loop iterates
HandlerList(E, e) == IF e.detached THEN e.lst ELSE E.handlers[e.name]

\* what subscribe(name, h), having appended h, means to the emit() with locals e
OnSubscribe(e, name) ==
    IF e.pc = "handler" /\ ~e.detached /\ e.name = name
    THEN [e EXCEPT !.changed = TRUE]
    ELSE e

\* what unsubscribe(name, h), having removed h, means to the emit() with locals
\* e; H is self._handlers after it
OnUnsubscribe(e, name, h, H) ==
    IF e.pc = "handler" /\ ~e.detached /\ e.name = name
    THEN [e EXCEPT !.selfun = @ \/ (e.cur = h), !.changed = @ \/ (e.cur # h),
                   !.detached = (H[name] = <<>>), !.lst = <<>>]
    ELSE e

\* what clear_handlers means to the emit() with locals e; H is self._handlers before it
OnClear(e, names, H) ==
    IF e.pc = "handler" /\ ~e.detached /\ e.name \in names
    THEN [e EXCEPT !.changed = TRUE, !.detached = TRUE, !.lst = H[e.name]]
    ELSE e

\* lines 59-64: unsubscribe; st is "ValueError" when list.remove raises
UnsubscribeIn(E, event_name, handler) ==
    IF E.handlers[event_name] = <<>>
    THEN [E |-> E, st |-> "ret", removed |-> FALSE]
    ELSE IF ~Contains(E.handlers[event_name], handler)
         THEN [E |-> E, st |-> "ValueError", removed |-> FALSE]
         ELSE LET H == [E.handlers EXCEPT ![event_name] = Remove(@, handler)]
              IN  [E |-> [E EXCEPT !.handlers = H,
                                   !.em = [t \in Tasks |->
                                             OnUnsubscribe(E.em[t], event_name, handler, H)]],
                   st |-> "ret", removed |-> TRUE]

\* lines 92-95: the handler of wait_for() coroutine w, invoked by the emit()
\* with locals e; it has no await, so it runs to its end at once
WaitHandlerRuns(E, e, w) ==
    IF E.wt[w].pc # "pending"
    THEN [E |-> E, e |-> e, st |-> "ret"]
    ELSE LET E1 == [E EXCEPT !.wt[w].pc = "resolved", !.wt[w].event = e.event]
             u == UnsubscribeIn(E1, E.wt[w].name, WaitHandler(w))
         IN  [E |-> u.E,
              e |-> IF u.removed
                    THEN OnUnsubscribe(e, E.wt[w].name, WaitHandler(w), u.E.handlers)
                    ELSE e,
              st |-> IF u.st = "ret" THEN "ret" ELSE "raise"]

\* the list iterator of the handler loop yields element i, or is exhausted
RECURSIVE NextHandler(_, _, _)
NextHandler(E, e, i) ==
    LET l == HandlerList(E, e)
    IN  IF i > Len(l)
        THEN Finish(E, e)
        ELSE LET e1 == [e EXCEPT !.pc = "handler", !.idx = i, !.cur = l[i],
                                 !.trace = Append(@, l[i])]
             IN  IF ~IsWaitHandler(l[i])
                 THEN EvRes(E, e1, "susp", NoEvent)
                 ELSE LET r == WaitHandlerRuns(E, e1, WaiterOf(l[i]))
                      IN  NextHandler(r.E,
                                      [r.e EXCEPT !.out = Append(@, r.st),
                                                  !.event.results =
                                                      IF r.st = "ret" THEN Append(@, "None")
                                                      ELSE @],
                                      i + 1)

\* line 41: if event_name in self._handlers
StartHandlers(E, e) ==
    IF E.handlers[e.name] # <<>>
    THEN NextHandler(E, [e EXCEPT !.detached = FALSE, !.lst = <<>>,
                                  !.start = E.handlers[e.name]], 1)
    ELSE Finish(E, e)

\* the list iterator of the middleware loop yields element i, or is exhausted
NextMiddleware(E, e, i) ==
    IF i <= Len(E.middleware)
    THEN EvRes(E, [e EXCEPT !.pc = "middleware", !.idx = i, !.cur = E.middleware[i],
                            !.trace = Append(@, E.middleware[i])], "susp", NoEvent)
    ELSE StartHandlers(E, e)

\* a middleware returned no event and emit goes on as if it had returned the event
VetoIgnored(E, e) ==
    NextMiddleware(E, [e EXCEPT !.veto = Len(e.trace), !.out = Append(@, "veto")], e.idx + 1)

\* lines 34-35: if not event: return None
Vetoed(E, e) ==
    EvRes(E, [e EXCEPT !.veto = Len(e.trace), !.out = Append(@, "veto")], "ret", NoEvent)

\* a middleware raised and emit gives up the emission
MiddlewareRaisedAborts(E, e) ==
    EvRes(E, [e EXCEPT !.out = Append(@, "raise")], "ret", NoEvent)

\* lines 36-38: the middleware's exception is logged, event is not rebound,
\* the loop continues
MiddlewareRaised(E, e) ==
    NextMiddleware(E, [e EXCEPT !.out = Append(@, "raise")], e.idx + 1)

\* a handler raised and emit gives up the delivery
HandlerRaisedAborts(E, e) ==
    Finish(E, [e EXCEPT !.out = Append(@, "raise")])

\* lines 46-48: the handler's exception is logged, the loop continues
HandlerRaised(E, e) ==
    NextHandler(E, [e EXCEPT !.out = Append(@, "raise")], e.idx + 1)

\* ev_last: e holds the locals of the emit() that returned, hlen the length
\* of the history when it was about to return, w the wait_for() coroutine
\* that ended
EvNoReturn ==
    [op |-> "-", name |-> "-", st |-> "-", val |-> NoEvent, trace |-> <<>>, veto |-> 0,
     e |-> IdleEmitter, hlen |-> 0, w |-> 0]

EvReturn(op, name, st, val) ==
    [op |-> op, name |-> name, st |-> st, val |-> val, trace |-> <<>>, veto |-> 0,
     e |-> IdleEmitter, hlen |-> 0, w |-> 0]

EvCommit(E) ==
    /\ ev_handlers' = E.handlers
    /\ middleware' = E.middleware
    /\ history' = E.history
    /\ waiter' = E.wt

\* one uninterrupted run of emit(): it suspends in the next callable or returns
EvApply(t, r) ==
    /\ EvCommit(r.E)
    /\ IF r.st = "ret"
       THEN /\ emitter' = [r.E.em EXCEPT ![t] = IdleEmitter]
            /\ ev_last' = [op |-> "emit", name |-> r.e.name, st |-> "ret", val |-> r.val,
                           trace |-> r.e.trace, veto |-> r.e.veto, e |-> r.e,
                           hlen |-> Len(history), w |-> 0]
       ELSE /\ emitter' = [r.E.em EXCEPT ![t] = r.e]
            /\ ev_last' = EvNoReturn
    /\ UNCHANGED <<regVars, kVars, svVars>>

FreeEmitter(t) == emitter[t].pc = "idle" /\ \A u \in Tasks : u < t => emitter[u].pc # "idle"

Emit(t, event_name) ==
    /\ FreeEmitter(t) /\ ev_calls < MaxEvCalls
    /\ ev_calls' = ev_calls + 1
    /\ LET e == [IdleEmitter EXCEPT !.name = event_name,
                                    !.event = Event(ev_calls + 1, event_name, "d0")]
       IN  EvApply(t, NextMiddleware(EvCur, e, 1))

\* the awaited middleware returns an event: the one it was given or a changed one
MiddlewareReturns(t, data) ==
    LET e == emitter[t]
    IN  /\ e.pc = "middleware"
        /\ ev_calls' = ev_calls
        /\ EvApply(t, NextMiddleware(EvCur, [e EXCEPT !.event.data = data,
                                                      !.out = Append(@, "ret")], e.idx + 1))

\* the awaited middleware returns None
MiddlewareVetoes(t) ==
    LET e == emitter[t]
    IN  /\ e.pc = "middleware"
        /\ ev_calls' = ev_calls
        /\ EvApply(t, Vetoed(EvCur, e))

\* the awaited middleware raises
MiddlewareRaises(t) ==
    LET e == emitter[t]
    IN  /\ e.pc = "middleware"
        /\ ev_calls' = ev_calls
        /\ EvApply(t, MiddlewareRaised(EvCur, e))

\* the awaited handler returns; its return value is its own name
HandlerReturns(t) ==
    LET e == emitter[t]
    IN  /\ e.pc = "handler"
        /\ ev_calls' = ev_calls
        /\ EvApply(t, NextHandler(EvCur, [e EXCEPT !.event.results = Append(@, e.cur),
                                                   !.out = Append(@, "ret")], e.idx + 1))

HandlerRaises(t) ==
    LET e == emitter[t]
    IN  /\ e.pc = "handler"
        /\ ev_calls' = ev_calls
        /\ EvApply(t, HandlerRaised(EvCur, e))

Subscribe(event_name, handler) ==
    /\ ev_calls < MaxEvCalls
    /\ ev_calls' = ev_calls + 1
    /\ IF Contains(ev_handlers[event_name], handler)
       THEN UNCHANGED <<ev_handlers, emitter>>
       ELSE /\ ev_handlers' = [ev_handlers EXCEPT ![event_name] = Append(@, handler)]
            /\ emitter' = [t \in Tasks |-> OnSubscribe(emitter[t], event_name)]
    /\ ev_last' = EvReturn("subscribe", event_name, "ret", NoEvent)
    /\ UNCHANGED <<middleware, history, waiter, regVars, kVars, svVars>>

Unsubscribe(event_name, handler) ==
    /\ ev_calls < MaxEvCalls
    /\ ev_calls' = ev_calls + 1
    /\ LET u == UnsubscribeIn(EvCur, event_name, handler)
       IN  /\ ev_handlers' = u.E.handlers
           /\ emitter' = u.E.em
           /\ ev_last' = EvReturn("unsubscribe", event_name, u.st, NoEvent)
    /\ UNCHANGED <<middleware, history, waiter, regVars, kVars, svVars>>

AddMiddleware(m) ==
    /\ ev_calls < MaxEvCalls
    /\ ev_calls' = ev_calls + 1
    /\ middleware' = IF Contains(middleware, m) THEN middleware ELSE Append(middleware, m)
    /\ ev_last' = EvReturn("add_middleware", "-", "ret", NoEvent)
    /\ UNCHANGED <<ev_handlers, history, emitter, waiter, regVars, kVars, svVars>>

RemoveMiddleware(m) ==
    /\ ev_calls < MaxEvCalls
    /\ ev_calls' = ev_calls + 1
    /\ middleware' = IF Contains(middleware, m) THEN Remove(middleware, m) ELSE middleware
    /\ ev_last' = EvReturn("remove_middleware", "-", "ret", NoEvent)
    /\ UNCHANGED <<ev_handlers, history, emitter, waiter, regVars, kVars, svVars>>

\* clear_handlers(event_name); names is every event name when called without one
ClearHandlers(names) ==
    /\ ev_calls < MaxEvCalls
    /\ ev_calls' = ev_calls + 1
    /\ ev_handlers' = [n \in EventNames |-> IF n \in names THEN <<>> ELSE ev_handlers[n]]
    /\ emitter' = [t \in Tasks |-> OnClear(emitter[t], names, ev_handlers)]
    /\ ev_last' = EvReturn("clear_handlers", "-", "ret", NoEvent)
    /\ UNCHANGED <<middleware, history, waiter, regVars, kVars, svVars>>

ClearHistory ==
    /\ ev_calls < MaxEvCalls
    /\ ev_calls' = ev_calls + 1
    /\ history' = <<>>
    /\ ev_last' = EvReturn("clear_history", "-", "ret", NoEvent)
    /\ UNCHANGED <<ev_handlers, middleware, emitter, waiter, regVars, kVars, svVars>>

FreeWaiter(t) == waiter[t].pc = "idle" /\ \A u \in Tasks : u < t => waiter[u].pc # "idle"

\* wait_for up to "await asyncio.wait_for(future, timeout)"
WaitFor(t, event_name, timeout) ==
    /\ FreeWaiter(t) /\ ev_calls < MaxEvCalls
    /\ ev_calls' = ev_calls + 1
    /\ ev_handlers' = [ev_handlers EXCEPT ![event_name] = Append(@, WaitHandler(t))]
    /\ emitter' = [u \in Tasks |-> OnSubscribe(emitter[u], event_name)]
    /\ waiter' = [waiter EXCEPT ![t] = [IdleWaiter EXCEPT !.pc = "pending",
                                                         !.name = event_name,
                                                         !.timeout = timeout,
                                                         !.before = ev_handlers,
                                                         !.at = ev_calls + 1]]
    /\ ev_last' = EvNoReturn
    /\ UNCHANGED <<middleware, history, regVars, kVars, svVars>>

\* the timeout of asyncio.wait_for expires first: the future is cancelled
WaitTimesOut(t) ==
    /\ waiter[t].pc = "pending"
    /\ waiter[t].timeout # "None"
    /\ waiter' = [waiter EXCEPT ![t].pc = "cancelled"]
    /\ ev_last' = EvNoReturn
    /\ UNCHANGED <<ev_handlers, middleware, history, emitter, ev_calls, regVars, kVars, svVars>>

\* lines 100-101: except asyncio.TimeoutError: self.unsubscribe(event_name, handler)
TimeoutUnsubscribes(E, event_name, handler) == UnsubscribeIn(E, event_name, handler)

\* the wait_for() coroutine resumes: with the result of its future, or with
\* TimeoutError (lines 100-102)
WaitResumes(t) ==
    /\ waiter[t].pc \in {"resolved", "cancelled"}
    /\ waiter' = [waiter EXCEPT ![t].pc = "done"]
    /\ IF waiter[t].pc = "resolved"
       THEN /\ ev_last' = [EvReturn("wait_for", waiter[t].name, "ret", waiter[t].event)
                              EXCEPT !.w = t]
            /\ UNCHANGED <<ev_handlers, emitter>>
       ELSE LET u == TimeoutUnsubscribes(EvCur, waiter[t].name, WaitHandler(t))
            IN  /\ ev_handlers' = u.E.handlers
                /\ emitter' = u.E.em
                /\ ev_last' = [EvReturn("wait_for", waiter[t].name,
                                        IF u.st = "ret" THEN "TimeoutError" ELSE u.st,
                                        NoEvent) EXCEPT !.w = t]
    /\ UNCHANGED <<middleware, history, ev_calls, regVars, kVars, svVars>>

InitEvents ==
    /\ ev_handlers = [n \in EventNames |-> <<>>]
    /\ middleware = <<>>
    /\ history = <<>>
    /\ emitter = [t \in Tasks |-> IdleEmitter]
    /\ waiter = [t \in Tasks |-> IdleWaiter]
    /\ ev_calls = 0
    /\ ev_last = EvNoReturn

(***************************************************************************)
(* Kernel (core/kernel.py) and ModuleAPI (core/module_api.py).  Nothing in *)
(* the kernel subscribes to the lifecycle events, so the kernel's own      *)
(* emit() calls are modelled where they complete without suspending.       *)
(***************************************************************************)
MaxKCalls == 4

\* the most classes of a module file that implement ModuleInterface
MaxClasses == 2

\* Kernel.CORE_MODULES, shortened, and the directories found under modules/user
CORE_MODULES == <<"system.database", "system.security", "system.admin">>
UserModules == <<"user.echo">>
LoadOrder == CORE_MODULES \o UserModules

\* no module's failure ends _load_modules
NoCritical == {}

\* the failure of any module ends _load_modules
AllCritical == {"system.database", "system.security", "system.admin", "user.echo"}

\* line 77: the modules whose failure ends _load_modules
Critical == {"system.database", "system.security"}

KServiceNames == {"events", "registry", "database"}
Tokens == {"", "tok"}

NoBot == [built |-> FALSE, initialized |-> FALSE, running |-> FALSE, polling |-> FALSE]
NewBot == [NoBot EXCEPT !.built = TRUE]

\* classes: the number of ModuleInterface subclasses in the namespace of the
\* module whose setup() is awaited
\* trace: what the call has done so far, in order: the events it emitted, the
\*        modules it attempted to load, set up, registered or cleaned up, the
\*        bot calls it awaited
\* failed: the modules whose load by this init() raised
IdleKTask ==
    [pc |-> "idle", op |-> "-", idx |-> 0, size |-> 0, cur |-> "-", inst |-> 0, todo |-> <<>>,
     classes |-> 0, trace |-> <<>>, failed |-> <<>>]

\* the call goes on to its next step
Did(c, step) == [c EXCEPT !.trace = Append(@, step)]

\* the load that init() made last raised
Failed(c) == [c EXCEPT !.failed = Append(@, c.trace[Len(c.trace)])]

\* the step that the call awaited raised in this run
Raised(W, c) == [W EXCEPT !.raised = c.trace[Len(c.trace)]]

\* the call suspends in the await of a step
Awaits(c, pc, step) == [Did(c, step) EXCEPT !.pc = pc]

\* the kernel's fields, the history of its EventManager, the number of
\* events created so far, and the _load_module calls that ended in this run
KCur ==
    [running |-> k_running, token |-> k_token, services |-> k_services,
     modules |-> k_modules, bot |-> k_bot, history |-> history, ev_calls |-> ev_calls,
     loads |-> <<>>, raised |-> "-"]

KRes(W, c, st, val) == [W |-> W, c |-> c, st |-> st, val |-> val]

KHas(d, name) == \E i \in 1..Len(d) : d[i].name = name

KKeys(d) == [i \in 1..Len(d) |-> d[i].name]

\* cleanup() of the instance under name is invoked; cleaned counts the
\* invocations on each instance in the map (2 stands for two or more)
KCleanup(d, name) ==
    [i \in 1..Len(d) |->
        IF d[i].name = name
        THEN [d[i] EXCEPT !.cleaned = IF @ < 2 THEN @ + 1 ELSE 2]
        ELSE d[i]]

\* an insertion that puts a new key before the others
KPutFront(d, name, inst) ==
    IF KHas(d, name)
    THEN [i \in 1..Len(d) |-> IF d[i].name = name THEN [name |-> name, inst |-> inst, cleaned |-> 0] ELSE d[i]]
    ELSE <<[name |-> name, inst |-> inst, cleaned |-> 0]>> \o d

\* self._modules[module_name] = instance
KPut(d, name, inst) ==
    IF KHas(d, name)
    THEN [i \in 1..Len(d) |-> IF d[i].name = name THEN [name |-> name, inst |-> inst, cleaned |-> 0] ELSE d[i]]
    ELSE Append(d, [name |-> name, inst |-> inst, cleaned |-> 0])

\* self._modules.get(name); instances are numbered from 1 and 0 stands for None
get_module(name) ==
    IF KHas(k_modules, name)
    THEN (CHOOSE e \in {k_modules[i] : i \in 1..Len(k_modules)} : e.name = name).inst
    ELSE 0

Reverse(seq) == [i \in 1..Len(seq) |-> seq[Len(seq) + 1 - i]]

\* no middleware and no subscriber: emit() returns without suspending
EmitsInline == middleware = <<>> /\ \A n \in EventNames : ev_handlers[n] = <<>>

\* await self._event_manager.emit(name, data)
KEmitData(W, name, data) ==
    LET e == [IdleEmitter EXCEPT !.name = name, !.event = Event(W.ev_calls + 1, name, data)]
        r == Finish([handlers |-> ev_handlers, middleware |-> middleware,
                     history |-> W.history], e)
    IN  [W EXCEPT !.history = r.E.history, !.ev_calls = @ + 1]

\* await self._event_manager.emit(name)
KEmit(W, name) == KEmitData(W, name, "d0")

\* a _load_module(name) call that ended: st "ret" or "raise" with err, the
\* number of ModuleInterface subclasses found, and how the setup() of the one
\* instantiated ended ("-": none was instantiated)
LoadRecord(name, st, err, classes, setup) ==
    [name |-> name, st |-> st, err |-> err, classes |-> classes, setup |-> setup]

Loaded(W, rec) == [W EXCEPT !.loads = Append(@, rec)]

\* setup() returned and _load_module returns without the line
\* self._modules[module_name] = instance
SetupReturnedNoInsert(W, c) ==
    Loaded(W, LoadRecord(c.cur, "ret", "-", c.classes, "ret"))

\* lines 145-148: setup() returned
SetupReturned(W, c) ==
    Loaded([W EXCEPT !.modules = KPut(@, c.cur, c.idx)],
           LoadRecord(c.cur, "ret", "-", c.classes, "ret"))

\* setup() raised and the instance that was there before is put back
SetupRaisedRollsBack(W, c) ==
    Loaded([W EXCEPT !.modules = KPut(@, c.cur, c.inst)],
           LoadRecord(c.cur, "raise", "SetupError", c.classes, "raise"))

\* lines 152-154: setup() raised, the exception is logged and raised again
SetupRaised(W, c) ==
    Loaded(W, LoadRecord(c.cur, "raise", "SetupError", c.classes, "raise"))

\* lines 118-119, 129-131, 150: no main.py, no import spec, or the loop over
\* dir(module) found no ModuleInterface subclass
LoadFails(W, name) ==
    Loaded(W, LoadRecord(name, "raise", "LoadError", 0, "-"))

\* _load_modules from position i of the load order; the modules before position
\* first fail in _load_module before a setup() is awaited, the module at
\* position first has classes ModuleInterface subclasses and the first of them
\* in dir() order is instantiated and reaches its setup()
RECURSIVE LoadFrom(_, _, _, _, _)
LoadFrom(W, c, i, first, classes) ==
    IF i > Len(LoadOrder)
    THEN KRes(W, c, "ret", "None")
    ELSE IF i < first
         THEN IF LoadOrder[i] \in Critical
              THEN KRes(LoadFails(W, LoadOrder[i]), Failed(Did(c, LoadOrder[i])),
                        "raise", "LoadError")
              ELSE LoadFrom(LoadFails(W, LoadOrder[i]), Failed(Did(c, LoadOrder[i])),
                            i + 1, first, classes)
         ELSE KRes(W, [Awaits(c, "setup", LoadOrder[i]) EXCEPT !.idx = i, !.cur = LoadOrder[i],
                                                                !.classes = classes],
                   "susp", "-")

\* init() up to "await self._bot.initialize()"
InitStart(W, c, token) ==
    KRes([W EXCEPT !.token = token,
                   !.services = [@ EXCEPT !["events"] = "events", !["registry"] = "registry"],
                   !.bot = NewBot,
                   !.history = <<>>],
         [c EXCEPT !.pc = "init_bot"], "susp", "-")

\* init() resumes: the awaited call returned (ok) or raised
InitStep(W, c, ok, first, classes) ==
    IF c.pc = "init_bot"
    THEN IF ok
         THEN LoadFrom([W EXCEPT !.bot.initialized = TRUE], c, 1, first, classes)
         ELSE KRes(W, c, "raise", "Error")
    ELSE IF ok
         THEN LoadFrom(SetupReturned(W, c), c, c.idx + 1, first, classes)
         ELSE IF c.cur \in Critical
              THEN KRes(SetupRaised(W, c), Failed(c), "raise", "SetupError")
              ELSE LoadFrom(SetupRaised(W, c), Failed(c), c.idx + 1, first, classes)

\* the except clause of start() without "self._running = False"
StartFailsStaysRunning(W, c, e) == KRes(W, c, "raise", e)

\* lines 190-193 of start()
StartFails(W, c, e) == KRes([W EXCEPT !.running = FALSE], c, "raise", e)

\* the loop of start() over self._modules.items() asks the dict iterator for item i
RegisterHandlersFrom(W, c, i) ==
    IF Len(W.modules) # c.size
    THEN StartFails(W, c, "RuntimeError")
    ELSE IF i <= Len(W.modules)
         THEN KRes(W, [Awaits(c, "register_handlers", W.modules[i].name)
                          EXCEPT !.idx = i, !.cur = W.modules[i].name], "susp", "-")
         ELSE KRes(KEmit(W, "after_start"),
                   Awaits(Did(c, "after_start"), "bot_start", "bot.start"), "susp", "-")

\* a register_handlers() that raises makes start() fail
RegisterHandlersRaisedAborts(W, c) == StartFails(Raised(W, c), c, "Error")

\* lines 181-182: the exception of register_handlers() is logged
RegisterHandlersRaised(W, c) == RegisterHandlersFrom(Raised(W, c), c, c.idx + 1)

\* start() without the tests of lines 158-162
StartStartUnguarded(W, c) ==
    KRes([KEmit([W EXCEPT !.running = TRUE], "before_start") EXCEPT !.bot = NewBot],
         Awaits(Did(c, "before_start"), "start_bot", "bot.initialize"), "susp", "-")

\* start() up to "await self._bot.initialize()"
StartStart(W, c) ==
    IF W.running
    THEN KRes(W, c, "raise", "RuntimeError")
    ELSE IF W.token \notin {"tok"}
         THEN KRes(W, c, "raise", "ValueError")
         ELSE KRes([KEmit([W EXCEPT !.running = TRUE], "before_start") EXCEPT !.bot = NewBot],
                   Awaits(Did(c, "before_start"), "start_bot", "bot.initialize"), "susp", "-")

\* start() resumes: the awaited call returned (ok) or raised
StartStep(W, c, ok) ==
    CASE c.pc = "start_bot" ->
            IF ok
            THEN RegisterHandlersFrom([W EXCEPT !.bot.initialized = TRUE],
                                      [c EXCEPT !.size = Len(W.modules)], 1)
            ELSE StartFails(Raised(W, c), c, "Error")
      [] c.pc = "register_handlers" ->
            IF ok
            THEN RegisterHandlersFrom(W, c, c.idx + 1)
            ELSE RegisterHandlersRaised(W, c)
      [] c.pc = "bot_start" ->
            IF ok
            THEN KRes([W EXCEPT !.bot.running = TRUE],
                      Awaits(c, "start_polling", "updater.start_polling"), "susp", "-")
            ELSE StartFails(Raised(W, c), c, "Error")
      [] OTHER ->
            IF ok
            THEN KRes([W EXCEPT !.bot.polling = TRUE], c, "ret", "None")
            ELSE StartFails(Raised(W, c), c, "Error")

\* lines 229-232 of stop()
StopFinally(W, c) ==
    KRes([W EXCEPT !.modules = <<>>, !.services = [n \in KServiceNames |-> "-"]],
         c, "ret", "stopped")

StopAfter(W, c) == StopFinally(KEmit(W, "after_stop"), Did(c, "after_stop"))

\* lines 215-223 of stop()
StopBot(W, c) ==
    IF ~W.bot.built
    THEN StopAfter(W, c)
    ELSE IF W.bot.polling
         THEN KRes(W, Awaits(c, "updater_stop", "updater.stop"), "susp", "-")
         ELSE KRes(W, Awaits(c, "bot_stop", "bot.stop"), "susp", "-")

\* the loop of stop() over reversed(list(self._modules.keys()))
StopFrom(W, c, todo) ==
    IF todo = <<>>
    THEN StopBot(W, c)
    ELSE IF ~KHas(W.modules, Head(todo))
         THEN StopFinally(W, c)
         ELSE KRes([W EXCEPT !.modules = KCleanup(@, Head(todo))],
                   [Awaits(c, "module_cleanup", Head(todo))
                       EXCEPT !.cur = Head(todo), !.todo = Tail(todo)], "susp", "-")

\* stop() without the test of lines 197-198
StopStartUnguarded(W, c) ==
    LET W1 == KEmit([W EXCEPT !.running = FALSE], "before_stop")
    IN  StopFrom(W1, [Did(c, "before_stop") EXCEPT !.size = Len(W1.modules)],
                 Reverse(KKeys(W1.modules)))

\* stop() up to its first await that suspends
StopStart(W, c) ==
    IF ~W.running
    THEN KRes(W, c, "ret", "None")
    ELSE LET W1 == KEmit([W EXCEPT !.running = FALSE], "before_stop")
         IN  StopFrom(W1, [Did(c, "before_stop") EXCEPT !.size = Len(W1.modules)],
                      Reverse(KKeys(W1.modules)))

\* stop() resumes: the awaited call returned (ok) or raised
StopStep(W, c, ok) ==
    CASE c.pc = "module_cleanup" -> StopFrom(IF ok THEN W ELSE Raised(W, c), c, c.todo)
      [] c.pc = "updater_stop" ->
            IF ok
            THEN KRes([W EXCEPT !.bot.polling = FALSE], Awaits(c, "bot_stop", "bot.stop"),
                      "susp", "-")
            ELSE StopAfter(Raised(W, c), c)
      [] c.pc = "bot_stop" ->
            IF ok
            THEN KRes([W EXCEPT !.bot.running = FALSE],
                      Awaits(c, "bot_shutdown", "bot.shutdown"), "susp", "-")
            ELSE StopAfter(Raised(W, c), c)
      [] OTHER ->
            IF ok
            THEN StopAfter([W EXCEPT !.bot.initialized = FALSE], c)
            ELSE StopAfter(Raised(W, c), c)

\* {'name': module_name, 'error': str(e)}
ErrorData(name, error) == name \o ": " \o error

\* False is returned and nothing is emitted
ReloadFailsSilently(W, c, error) == KRes(W, c, "ret", "False")

\* lines 245-249 and 261-266: module_reload_error is emitted, False is returned
ReloadFails(W, c, error) ==
    KRes(KEmitData(W, "module_reload_error", ErrorData(c.cur, error)),
         Did(c, "module_reload_error"), "ret", "False")

\* the instance that self._modules holds under name
InstanceOf(d, name) == (CHOOSE e \in {d[i] : i \in 1..Len(d)} : e.name = name).inst

\* del self._modules[name]
KDel(d, name) == SelectSeq(d, LAMBDA e : e.name # name)

\* reload_module(name) that goes to the load without a cleanup()
ReloadStartNoCleanup(W, c, name, fresh) ==
    LET c1 == [c EXCEPT !.cur = name, !.idx = fresh]
    IN  IF ~KHas(W.modules, name)
        THEN ReloadFails(W, c1, "Module not found")
        ELSE KRes([W EXCEPT !.modules = KDel(@, name)],
                  [Awaits(c1, "reload_setup", "setup")
                      EXCEPT !.inst = InstanceOf(W.modules, name), !.classes = 1],
                  "susp", "-")

\* reload_module(name) up to "await self._modules[module_name].cleanup()";
\* fresh is the instance that a load by this call will create
ReloadStart(W, c, name, fresh) ==
    LET c1 == [c EXCEPT !.cur = name, !.idx = fresh]
    IN  IF ~KHas(W.modules, name)
        THEN ReloadFails(W, c1, "Module not found")
        ELSE KRes([W EXCEPT !.modules = KCleanup(@, name)],
                  [Awaits(c1, "reload_cleanup", "cleanup")
                      EXCEPT !.inst = InstanceOf(W.modules, name)], "susp", "-")

\* line 254 raises: control goes to the except branch of lines 261-266
CleanupRaised(W, c) == ReloadFails(Raised(W, c), c, "CleanupError")

\* reload_module() resumes: the awaited call returned (ok) or raised; reaches
\* tells whether _load_module gets as far as a setup(), classes how many
\* ModuleInterface subclasses the module file then holds
ReloadStep(W, c, ok, reaches, classes) ==
    IF c.pc = "reload_cleanup"
    THEN IF ~ok
         THEN CleanupRaised(W, c)
         ELSE IF ~KHas(W.modules, c.cur)
              THEN ReloadFails(W, c, "KeyError")
              ELSE LET W1 == [W EXCEPT !.modules = KDel(@, c.cur)]
                   IN  IF reaches
                       THEN KRes(W1, [Awaits(c, "reload_setup", "setup")
                                         EXCEPT !.classes = classes], "susp", "-")
                       ELSE ReloadFails(LoadFails(W1, c.cur), c, "LoadError")
    ELSE IF ok
         THEN KRes(KEmitData(SetupReturned(W, c), "module_reloaded", c.cur),
                   Did(c, "module_reloaded"), "ret", "True")
         ELSE ReloadFails(SetupRaised(Raised(W, c), c), c, "SetupError")

\* k_last: loads holds the _load_module calls that ended in the run, raised
\* the awaited step that raised in it, trace and failed what the call that
\* ended had done, size the number of modules when its loop over them began,
\* cur the module it was about, inst the instance it found and idx the one it
\* made
KNoReturn ==
    [op |-> "-", st |-> "-", val |-> "-", loads |-> <<>>, raised |-> "-",
     trace |-> <<>>, failed |-> <<>>, size |-> 0, cur |-> "-", inst |-> 0, idx |-> 0]

KCommit(W) ==
    /\ k_running' = W.running
    /\ k_token' = W.token
    /\ k_services' = W.services
    /\ k_modules' = W.modules
    /\ k_bot' = W.bot
    /\ history' = W.history
    /\ ev_calls' = W.ev_calls

\* one uninterrupted run of a Kernel coroutine
KApply(t, op, r) ==
    /\ KCommit(r.W)
    /\ IF r.st \in {"ret", "raise"}
       THEN /\ k_task' = [k_task EXCEPT ![t] = IdleKTask]
            /\ k_last' = [op |-> op, st |-> r.st, val |-> r.val, loads |-> r.W.loads,
                          raised |-> r.W.raised, trace |-> r.c.trace, failed |-> r.c.failed,
                          size |-> r.c.size, cur |-> r.c.cur, inst |-> r.c.inst,
                          idx |-> r.c.idx]
       ELSE /\ k_task' = [k_task EXCEPT ![t] = [r.c EXCEPT !.op = op]]
            /\ k_last' = [KNoReturn EXCEPT !.loads = r.W.loads, !.raised = r.W.raised]
    /\ UNCHANGED <<ev_handlers, middleware, emitter, waiter, ev_last, svVars>>

FreeKTask(t) == k_task[t].pc = "idle" /\ \A u \in Tasks : u < t => k_task[u].pc # "idle"

\* init(token), called once: _init_events and _init_registry create a new
\* EventManager and a new Registry
KernelInit(t, token) ==
    /\ FreeKTask(t) /\ k_calls < MaxKCalls
    /\ k_token = "None"
    /\ \A u \in Tasks : task[u].pc = "idle"
    /\ EmitsInline
    /\ k_calls' = k_calls + 1
    /\ KApply(t, "init", InitStart(KCur, IdleKTask, token))
    /\ services' = <<>>
    /\ commands' = [c \in Commands |-> Absent]
    /\ handlers' = [e \in EventTypes |-> <<>>]
    /\ modules' = [m \in ModuleNames |-> Absent]
    /\ locks' = [k \in LockKeys |-> NoLock]
    /\ lockObj' = [r \in LockKeys \X LockGens |-> FreeLock]
    /\ last' = NoReturn
    /\ UNCHANGED <<clock, task, calls>>

KernelInitResumes(t, ok, first, classes) ==
    /\ k_task[t].op = "init"
    /\ first > k_task[t].idx
    /\ k_calls' = k_calls
    /\ KApply(t, "init", InitStep(KCur, k_task[t], ok, first, classes))
    /\ UNCHANGED regVars

KernelStart(t) ==
    /\ FreeKTask(t) /\ k_calls < MaxKCalls
    /\ EmitsInline
    /\ k_calls' = k_calls + 1
    /\ KApply(t, "start", StartStart(KCur, IdleKTask))
    /\ UNCHANGED regVars

KernelStartResumes(t, ok) ==
    /\ k_task[t].op = "start"
    /\ EmitsInline
    /\ k_calls' = k_calls
    /\ KApply(t, "start", StartStep(KCur, k_task[t], ok))
    /\ UNCHANGED regVars

KernelStop(t) ==
    /\ FreeKTask(t) /\ k_calls < MaxKCalls
    /\ EmitsInline
    /\ k_calls' = k_calls + 1
    /\ KApply(t, "stop", StopStart(KCur, IdleKTask))
    /\ UNCHANGED regVars

KernelStopResumes(t, ok) ==
    /\ k_task[t].op = "stop"
    /\ EmitsInline
    /\ k_calls' = k_calls
    /\ KApply(t, "stop", StopStep(KCur, k_task[t], ok))
    /\ UNCHANGED regVars

KernelReload(t, name) ==
    /\ FreeKTask(t) /\ k_calls < MaxKCalls
    /\ EmitsInline
    /\ k_calls' = k_calls + 1
    /\ KApply(t, "reload_module", ReloadStart(KCur, IdleKTask, name, Len(LoadOrder) + k_calls + 1))
    /\ UNCHANGED regVars

KernelReloadResumes(t, ok, reaches, classes) ==
    /\ k_task[t].op = "reload_module"
    /\ EmitsInline
    /\ k_calls' = k_calls
    /\ KApply(t, "reload_module", ReloadStep(KCur, k_task[t], ok, reaches, classes))
    /\ UNCHANGED regVars

\* Kernel.register_service
KernelRegisterService(name, service) ==
    /\ k_calls < MaxKCalls
    /\ k_calls' = k_calls + 1
    /\ k_services' = [k_services EXCEPT ![name] = service]
    /\ k_last' = [op |-> "register_service", st |-> "ret", val |-> "None", loads |-> <<>>, raised |-> "-",
                  trace |-> <<>>, failed |-> <<>>, size |-> 0, cur |-> "-", inst |-> 0,
                  idx |-> 0]
    /\ UNCHANGED <<k_running, k_token, k_modules, k_bot, k_task, regVars, evVars, svVars>>

\* ModuleAPI.register_service
ModuleAPIRegisterService(name, service) ==
    /\ k_calls < MaxKCalls
    /\ k_calls' = k_calls + 1
    /\ IF k_services[name] = "-"
       THEN /\ k_services' = [k_services EXCEPT ![name] = service]
            /\ k_last' = [op |-> "api.register_service", st |-> "ret", val |-> "True", loads |-> <<>>, raised |-> "-",
                  trace |-> <<>>, failed |-> <<>>, size |-> 0, cur |-> "-", inst |-> 0,
                  idx |-> 0]
       ELSE /\ k_services' = k_services
            /\ k_last' = [op |-> "api.register_service", st |-> "ret", val |-> "False", loads |-> <<>>, raised |-> "-",
                  trace |-> <<>>, failed |-> <<>>, size |-> 0, cur |-> "-", inst |-> 0,
                  idx |-> 0]
    /\ UNCHANGED <<k_running, k_token, k_modules, k_bot, k_task, regVars, evVars, svVars>>

\* a module registers its service, once, in the Registry it got from the kernel
ModuleRegistersService(t, name, service) ==
    /\ k_services["registry"] = "registry"
    /\ ~Has(services, name)
    /\ RegisterService(t, name, service, "None")

InitKernel ==
    /\ k_running = FALSE
    /\ k_token = "None"
    /\ k_services = [n \in KServiceNames |-> "-"]
    /\ k_modules = <<>>
    /\ k_bot = NoBot
    /\ k_task = [t \in Tasks |-> IdleKTask]
    /\ k_calls = 0
    /\ k_last = KNoReturn

(***************************************************************************)
(* Spec: the Registry's services under concurrent callers.                 *)
(***************************************************************************)
(***************************************************************************)
(* BaseService (core/service.py): one service object, its queue objects,   *)
(* its worker tasks and the coroutines that call stop().  start() and      *)
(* add_task() have no await that suspends, so each is one step.            *)
(***************************************************************************)
MaxWorkers == 2
MaxSvCalls == 4

Workers == 1..MaxWorkers

Items == {"i1", "i2"}

NoWorker == [pc |-> "none", q |-> 0, item |-> "-", cancel |-> FALSE, end |-> "-"]

NewQueue == [items |-> <<>>, unfinished |-> 0]

IdleSvTask == [pc |-> "idle", q |-> 0, w |-> 0]

SvNoReturn == [op |-> "-", st |-> "-", val |-> "-"]

SvCur ==
    [running |-> sv_running, queue |-> sv_queue, process |-> sv_process, q |-> sv_q,
     stats |-> sv_stats]

SvCommit(S) ==
    /\ sv_running' = S.running
    /\ sv_queue' = S.queue
    /\ sv_process' = S.process
    /\ sv_q' = S.q
    /\ sv_stats' = S.stats

\* the worker tasks that were created and have not ended
Live == {w \in Workers : sv_worker[w].pc \notin {"none", "done"}}

Created == {w \in Workers : sv_worker[w].pc # "none"}

\* lines 104-111: the finally block of _process_queue empties self._queue,
\* the queue the service holds now; task_done() raises ValueError when it is
\* called more often than items were put
Drain(S, w, end) ==
    LET n == Len(S.q[S.queue].items)
        u == S.q[S.queue].unfinished
    IN  IF n <= u
        THEN [S |-> [S EXCEPT !.q[S.queue] = [items |-> <<>>, unfinished |-> u - n]],
              w |-> [w EXCEPT !.pc = "done", !.item = "-", !.cancel = FALSE, !.end = end]]
        ELSE [S |-> [S EXCEPT !.q[S.queue] =
                        [items |-> SubSeq(S.q[S.queue].items, u + 2, n), unfinished |-> 0]],
              w |-> [w EXCEPT !.pc = "done", !.item = "-", !.cancel = FALSE,
                              !.end = "raise"]]

\* lines 76-78: the head of the loop and self._queue.get(); with an item in
\* the queue get() returns it without suspending and the worker is suspended
\* in _process_item(item)
Loop(S, w) ==
    IF ~S.running
    THEN Drain(S, w, "ret")
    ELSE IF S.q[S.queue].items # <<>>
         THEN [S |-> [S EXCEPT !.q[S.queue].items = Tail(@)],
               w |-> [w EXCEPT !.pc = "item", !.q = S.queue,
                               !.item = Head(S.q[S.queue].items)]]
         ELSE [S |-> S, w |-> [w EXCEPT !.pc = "get", !.q = S.queue, !.item = "-"]]

\* line 96: self._queue.task_done() in the finally block, on the queue the
\* service holds now, and what follows it; a ValueError it raises is caught
\* at line 100 (also when a CancelledError was on its way) and the worker
\* sleeps
TaskDone(S, w) ==
    IF S.q[S.queue].unfinished = 0
    THEN [S |-> S, w |-> [w EXCEPT !.pc = "sleep", !.item = "-", !.cancel = FALSE]]
    ELSE LET S1 == [S EXCEPT !.q[S.queue].unfinished = @ - 1]
         IN  IF w.cancel THEN Drain(S1, w, "cancelled") ELSE Loop(S1, w)

\* the worker task is resumed; outcome is how _process_item(item) ended
WorkerStep(S, w, outcome) ==
    CASE w.pc = "new" ->
            IF w.cancel
            THEN [S |-> S, w |-> [w EXCEPT !.pc = "done", !.cancel = FALSE,
                                           !.end = "cancelled"]]
            ELSE Loop(S, w)
      [] w.pc = "get" ->
            IF w.cancel
            THEN Drain(S, w, "cancelled")
            ELSE LET S1 == [S EXCEPT !.q[w.q].items = Tail(@)]
                 IN  [S |-> S1, w |-> [w EXCEPT !.pc = "item", !.item = Head(S.q[w.q].items)]]
      [] w.pc = "item" ->
            IF w.cancel
            THEN TaskDone(S, w)
            ELSE IF outcome = "ok"
                 THEN TaskDone([S EXCEPT !.stats.processed_items = @ + 1], w)
                 ELSE TaskDone([S EXCEPT !.stats.errors = @ + 1,
                                         !.stats.last_error = "error"], w)
      [] OTHER ->
            IF w.cancel THEN Drain(S, w, "cancelled") ELSE Loop(S, w)

\* sv_last after a worker step that ended an _process_item(item): how it
\* ended and the item
ProcessItemEnded(w, outcome) ==
    [op |-> "_process_item",
     st |-> IF w.cancel THEN "cancelled" ELSE IF outcome = "ok" THEN "ret" ELSE "raise",
     val |-> w.item]

\* the event loop can resume the worker
Runnable(w) ==
    \/ sv_worker[w].pc \in {"new", "item", "sleep"}
    \/ sv_worker[w].pc = "get"
          /\ (sv_worker[w].cancel \/ sv_q[sv_worker[w].q].items # <<>>)

WorkerRuns(w, outcome) ==
    /\ Runnable(w)
    /\ LET r == WorkerStep(SvCur, sv_worker[w], outcome)
       IN  /\ SvCommit(r.S)
           /\ sv_worker' = [sv_worker EXCEPT ![w] = r.w]
    /\ sv_last' = IF sv_worker[w].pc = "item"
                  THEN ProcessItemEnded(sv_worker[w], outcome)
                  ELSE SvNoReturn
    /\ UNCHANGED <<sv_task, sv_calls, regVars, evVars, kVars>>

\* lines 34-37 of start(): a new queue object, a new worker task
StartCreates ==
    /\ Cardinality(Created) < MaxWorkers
    /\ sv_running' = TRUE
    /\ sv_queue' = Cardinality(Created) + 1
    /\ sv_process' = Cardinality(Created) + 1
    /\ sv_worker' = [sv_worker EXCEPT ![Cardinality(Created) + 1] =
                        [NoWorker EXCEPT !.pc = "new"]]

\* start(): a new queue and a new worker task unless the service is running
ServiceStart ==
    /\ sv_calls < MaxSvCalls
    /\ sv_calls' = sv_calls + 1
    /\ IF sv_running
       THEN UNCHANGED <<sv_running, sv_queue, sv_process, sv_worker>>
       ELSE StartCreates
    /\ sv_last' = [op |-> "start", st |-> "ret", val |-> "None"]
    /\ UNCHANGED <<sv_q, sv_stats, sv_task, regVars, evVars, kVars>>

\* add_task(item) that puts the item twice
ServiceAddTaskTwice(item) ==
    /\ sv_calls < MaxSvCalls
    /\ sv_calls' = sv_calls + 1
    /\ IF ~sv_running
       THEN /\ sv_last' = [op |-> "add_task", st |-> "raise", val |-> "RuntimeError"]
            /\ sv_q' = sv_q
       ELSE /\ sv_last' = [op |-> "add_task", st |-> "ret", val |-> "None"]
            /\ sv_q' = [sv_q EXCEPT ![sv_queue] =
                          [items |-> @.items \o <<item, item>>,
                           unfinished |-> @.unfinished + 2]]
    /\ UNCHANGED <<sv_running, sv_queue, sv_process, sv_worker, sv_stats, sv_task,
                   regVars, evVars, kVars>>

\* add_task(item): the queue is unbounded, so put() does not suspend
ServiceAddTask(item) ==
    /\ sv_calls < MaxSvCalls
    /\ sv_calls' = sv_calls + 1
    /\ IF ~sv_running
       THEN /\ sv_last' = [op |-> "add_task", st |-> "raise", val |-> "RuntimeError"]
            /\ sv_q' = sv_q
       ELSE /\ sv_last' = [op |-> "add_task", st |-> "ret", val |-> "None"]
            /\ sv_q' = [sv_q EXCEPT ![sv_queue] =
                          [items |-> Append(@.items, item), unfinished |-> @.unfinished + 1]]
    /\ UNCHANGED <<sv_running, sv_queue, sv_process, sv_worker, sv_stats, sv_task,
                   regVars, evVars, kVars>>

FreeSvTask(t) == sv_task[t].pc = "idle" /\ \A u \in Tasks : u < t => sv_task[u].pc # "idle"

\* lines 53-58 of stop(): self._process_task, the task the service holds
\* now, is cancelled and awaited; awaiting a task that has ended does not
\* suspend
StopCancels(t) ==
    LET w == sv_process
    IN  IF sv_worker[w].pc = "done"
        THEN /\ sv_worker' = sv_worker
             /\ sv_task' = [sv_task EXCEPT ![t] = IdleSvTask]
             /\ sv_last' = [op |-> "stop", st |-> "ret", val |-> "None"]
        ELSE /\ sv_worker' = [sv_worker EXCEPT ![w].cancel = TRUE]
             /\ sv_task' = [sv_task EXCEPT ![t] =
                               [pc |-> "await_task", q |-> sv_task[t].q, w |-> w]]
             /\ sv_last' = SvNoReturn

\* stop() up to "await asyncio.wait_for(self._queue.join(), timeout=5.0)"
ServiceStop(t) ==
    /\ FreeSvTask(t) /\ sv_calls < MaxSvCalls
    /\ sv_calls' = sv_calls + 1
    /\ IF ~sv_running
       THEN /\ sv_last' = [op |-> "stop", st |-> "ret", val |-> "None"]
            /\ UNCHANGED <<sv_running, sv_task>>
       ELSE /\ sv_running' = FALSE
            /\ sv_task' = [sv_task EXCEPT ![t] =
                              [pc |-> "join", q |-> sv_queue, w |-> sv_process]]
            /\ sv_last' = SvNoReturn
    /\ UNCHANGED <<sv_queue, sv_process, sv_q, sv_worker, sv_stats, regVars, evVars, kVars>>

\* the event loop has the worker task in its queue of ready callbacks: it
\* runs at the next iteration of the loop
Ready(w) ==
    \/ sv_worker[w].pc = "new"
    \/ sv_worker[w].pc = "get"
          /\ (sv_worker[w].cancel \/ sv_q[sv_worker[w].q].items # <<>>)

\* stop() resumes: join() returned or the five seconds are over (timeout),
\* or the awaited worker task has ended.  The loop runs its ready callbacks
\* in the order they were scheduled and a timer's after them: a worker task
\* created before stop() was called has run when wait_for returns, and no
\* ready worker is left waiting when the timeout fires.
ServiceStopResumes(t, timeout) ==
    /\ sv_task[t].pc # "idle"
    /\ IF sv_task[t].pc = "join"
       THEN /\ \A w \in Workers : sv_worker[w].pc = "new" => w > sv_task[t].w
            /\ \/ timeout /\ \A w \in Workers : ~Ready(w)
               \/ ~timeout /\ sv_q[sv_task[t].q].unfinished = 0
            /\ StopCancels(t)
       ELSE /\ ~timeout
            /\ sv_worker[sv_task[t].w].pc = "done"
            /\ sv_worker' = sv_worker
            /\ sv_task' = [sv_task EXCEPT ![t] = IdleSvTask]
            /\ sv_last' = [op |-> "stop", st |-> "ret", val |-> "None"]
    /\ UNCHANGED <<sv_running, sv_queue, sv_process, sv_q, sv_stats, sv_calls,
                   regVars, evVars, kVars>>

InitService ==
    /\ sv_running = FALSE
    /\ sv_queue = 0
    /\ sv_process = 0
    /\ sv_q = [q \in Workers |-> NewQueue]
    /\ sv_worker = [w \in Workers |-> NoWorker]
    /\ sv_stats = [processed_items |-> 0, errors |-> 0, last_error |-> "None"]
    /\ sv_task = [t \in Tasks |-> IdleSvTask]
    /\ sv_calls = 0
    /\ sv_last = SvNoReturn

Init == InitRegistry /\ InitEvents /\ InitKernel /\ InitService

Next ==
    \E t \in Tasks :
        \/ \E name \in ServiceNames, service \in Instances, metadata \in Metadatas :
              RegisterService(t, name, service, metadata)
        \/ \E name \in ServiceNames : UnregisterService(t, name)
        \/ Cleanup(t)
        \/ LockAcquired(t)
        \/ HookReturns(t)
        \/ HookRaises(t)

Spec == Init /\ [][Next]_vars

(***************************************************************************)
(* SpecCommands: commands, event handlers and modules registered while     *)
(* cleanup() runs, with one service whose hook suspends cleanup.           *)
(***************************************************************************)
NextCommands ==
    \E t \in Tasks :
        \/ \E m \in ModuleNames, command \in Commands, handler \in Callables :
              RegisterCommand(t, m, command, handler, "None")
        \/ \E event_type \in EventTypes, handler \in Callables :
              RegisterHandler(t, "m1", event_type, handler)
        \/ RegisterModule(t, "m1", "m1", "md")
        \/ RegisterService(t, "db", "svc", "None")
        \/ Cleanup(t)
        \/ LockAcquired(t)
        \/ HookReturns(t)
        \/ HookRaises(t)

SpecCommands == Init /\ [][NextCommands]_vars

(***************************************************************************)
(* SpecEvents: the EventManager under emissions that suspend in their      *)
(* middleware and handlers while the bus is changed.                       *)
(***************************************************************************)
NextEvents ==
    \/ \E t \in Tasks :
          \/ \E event_name \in EventNames : Emit(t, event_name)
          \/ \E data \in Datas : MiddlewareReturns(t, data)
          \/ MiddlewareVetoes(t)
          \/ MiddlewareRaises(t)
          \/ HandlerReturns(t)
          \/ HandlerRaises(t)
    \/ \E event_name \in EventNames, handler \in Callables : Subscribe(event_name, handler)
    \/ \E event_name \in EventNames, handler \in Callables : Unsubscribe(event_name, handler)
    \/ \E m \in MiddlewareIds : AddMiddleware(m)
    \/ \E m \in MiddlewareIds : RemoveMiddleware(m)
    \/ \E names \in {{n} : n \in EventNames} \cup {EventNames} : ClearHandlers(names)
    \/ ClearHistory

SpecEvents == Init /\ [][NextEvents]_vars

(***************************************************************************)
(* SpecWait: wait_for() calls pending on one event name while it is        *)
(* emitted, with an ordinary handler subscribed to the same name.          *)
(***************************************************************************)
NextWait ==
    \/ \E t \in Tasks :
          \/ \E timeout \in Timeouts : WaitFor(t, "ping", timeout)
          \/ WaitTimesOut(t)
          \/ WaitResumes(t)
          \/ Emit(t, "ping")
          \/ HandlerReturns(t)
          \/ HandlerRaises(t)
    \/ Subscribe("ping", "h1")
    \/ ClearHandlers({"ping"})

SpecWait == Init /\ [][NextWait]_vars

(***************************************************************************)
(* SpecKernel: the kernel's lifecycle, its Service Container and the       *)
(* Registry it creates.                                                    *)
(***************************************************************************)
NextKernel ==
    \/ \E t \in Tasks :
          \/ \E token \in Tokens : KernelInit(t, token)
          \/ \E ok \in BOOLEAN, first \in 1..(Len(LoadOrder) + 1), classes \in 1..MaxClasses :
                KernelInitResumes(t, ok, first, classes)
          \/ KernelStart(t)
          \/ \E ok \in BOOLEAN : KernelStartResumes(t, ok)
          \/ KernelStop(t)
          \/ \E ok \in BOOLEAN : KernelStopResumes(t, ok)
          \/ ModuleRegistersService(t, "db", "svc")
    \/ \E name \in {"registry", "database"}, service \in Instances :
          KernelRegisterService(name, service)
    \/ \E name \in {"registry", "database"}, service \in Instances :
          ModuleAPIRegisterService(name, service)

SpecKernel == Init /\ [][NextKernel]_vars

(***************************************************************************)
(* SpecLoad: init loading the modules in their order, and start called     *)
(* before, during and after it.                                            *)
(***************************************************************************)
NextLoad ==
    \E t \in Tasks :
        \/ \E token \in Tokens : KernelInit(t, token)
        \/ \E ok \in BOOLEAN, first \in 1..(Len(LoadOrder) + 1), classes \in 1..MaxClasses :
              KernelInitResumes(t, ok, first, classes)
        \/ KernelStart(t)
        \/ \E ok \in BOOLEAN : KernelStartResumes(t, ok)

SpecLoad == Init /\ [][NextLoad]_vars

(***************************************************************************)
(* SpecStop: stop called before, during and after an init and a start      *)
(* whose awaited calls all return.                                         *)
(***************************************************************************)
NextStop ==
    \E t \in Tasks :
        \/ \E token \in Tokens : KernelInit(t, token)
        \/ KernelInitResumes(t, TRUE, k_task[t].idx + 1, 1)
        \/ KernelStart(t)
        \/ KernelStartResumes(t, TRUE)
        \/ KernelStop(t)
        \/ \E ok \in BOOLEAN : KernelStopResumes(t, ok)

SpecStop == Init /\ [][NextStop]_vars

(***************************************************************************)
(* SpecReload: reload_module called before, during and after an init whose *)
(* awaited calls all return, also while another reload_module is           *)
(* suspended.                                                              *)
(***************************************************************************)
ReloadNames == {"system.database", "user.echo"}

NextReload ==
    \E t \in Tasks :
        \/ \E token \in Tokens : KernelInit(t, token)
        \/ KernelInitResumes(t, TRUE, k_task[t].idx + 1, 1)
        \/ \E name \in ReloadNames : KernelReload(t, name)
        \/ \E ok \in BOOLEAN, reaches \in BOOLEAN :
              KernelReloadResumes(t, ok, reaches, 1)

SpecReload == Init /\ [][NextReload]_vars

(***************************************************************************)
(* SpecUnload: stop and reload_module of one module on a kernel whose init *)
(* and start take their course without a failure.                          *)
(***************************************************************************)
NextUnload ==
    \E t \in Tasks :
        \/ \E token \in Tokens : KernelInit(t, token)
        \/ KernelInitResumes(t, TRUE, k_task[t].idx + 1, 1)
        \/ KernelStart(t)
        \/ KernelStartResumes(t, TRUE)
        \/ KernelStop(t)
        \/ \E ok \in BOOLEAN : KernelStopResumes(t, ok)
        \/ KernelReload(t, "system.admin")
        \/ \E ok \in BOOLEAN : KernelReloadResumes(t, ok, TRUE, 1)

SpecUnload == Init /\ [][NextUnload]_vars

(***************************************************************************)
(* SpecAbort: init, start and stop called one after another, each call     *)
(* made when the one before has returned or raised; the loads of init and  *)
(* the calls that start awaits may fail.                                   *)
(***************************************************************************)
NoCallInFlight == \A u \in Tasks : k_task[u].pc = "idle"

NextAbort ==
    \E t \in Tasks :
        \/ \E token \in Tokens : KernelInit(t, token)
        \/ \E ok \in BOOLEAN, first \in 1..(Len(LoadOrder) + 1), classes \in 1..MaxClasses :
              KernelInitResumes(t, ok, first, classes)
        \/ NoCallInFlight /\ KernelStart(t)
        \/ \E ok \in BOOLEAN : KernelStartResumes(t, ok)
        \/ NoCallInFlight /\ KernelStop(t)
        \/ KernelStopResumes(t, TRUE)

SpecAbort == Init /\ [][NextAbort]_vars

(***************************************************************************)
(* SpecTeardown: start, reload_module of one module and stop, called after *)
(* init has returned, in every interleaving, every awaited call returning. *)
(***************************************************************************)
InitReturned == \A u \in Tasks : k_task[u].op # "init"

NextTeardown ==
    \E t \in Tasks :
        \/ \E token \in Tokens : KernelInit(t, token)
        \/ KernelInitResumes(t, TRUE, k_task[t].idx + 1, 1)
        \/ InitReturned /\ KernelStart(t)
        \/ KernelStartResumes(t, TRUE)
        \/ InitReturned /\ KernelStop(t)
        \/ KernelStopResumes(t, TRUE)
        \/ InitReturned /\ KernelReload(t, "system.security")
        \/ KernelReloadResumes(t, TRUE, TRUE, 1)

SpecTeardown == Init /\ [][NextTeardown]_vars

(***************************************************************************)
(* SpecService: one BaseService, its callers and its worker tasks.         *)
(***************************************************************************)
NextService ==
    \/ ServiceStart
    \/ \E item \in Items : ServiceAddTask(item)
    \/ \E t \in Tasks : ServiceStop(t)
    \/ \E t \in Tasks, timeout \in BOOLEAN : ServiceStopResumes(t, timeout)
    \/ \E w \in Workers, outcome \in {"ok", "raise"} : WorkerRuns(w, outcome)

SpecService == Init /\ [][NextService]_vars

(***************************************************************************)
(* Properties of the Registry.                                             *)
(***************************************************************************)
\* two entries are the same registration
SameRegistration(e, f) ==
    e.instance = f.instance /\ e.metadata = f.metadata /\ e.registered_at = f.registered_at

\* this step issues a call of op
Started(op) ==
    /\ calls' = calls + 1
    /\ last'.op = op \/ \E t \in Tasks : task[t].pc = "idle" /\ task'[t].op = op

\* the key the call issued in this step was given
StartedKey == IF last'.op # "-" THEN last'.key ELSE task'[CHOOSE t \in Tasks : task'[t] # task[t]].key

Quiescent == \A t \in Tasks : task[t].pc = "idle"

\* C1: register_service has at-most-one-winner semantics per name under every
\* interleaving: a call returns true only if the name was absent, and an
\* entry stored by a successful registration is never replaced by another
\* registration (it can only be removed).
C1_AtMostOneWinner ==
    [][/\ (last'.op = "register_service" /\ last'.val = "True") => ~Has(services, last'.key)
       /\ \A n \in ServiceNames :
             Has(services, n) /\ Has(services', n)
                => SameRegistration(Lookup(services, n), Lookup(services', n))]_vars

\* C2: registering a service name twice in sequence: the first call (name
\* absent, no other call in flight) returns true and stores its instance; the
\* second (name present) returns false without raising and leaves the stored
\* instance, metadata and timestamp unchanged, so get_service(name) still
\* returns the first instance.
C2_SecondRegistrationRejected ==
    [][Started("register_service") =>
         IF Has(services, StartedKey)
         THEN /\ last'.op = "register_service" /\ last'.st = "ret" /\ last'.val = "False"
              /\ services' = services
              /\ InstanceIn(services', StartedKey) = get_service(StartedKey)
         ELSE (Quiescent =>
                 (/\ last'.op = "register_service" /\ last'.st = "ret" /\ last'.val = "True"
                  /\ InstanceIn(services', StartedKey) = last'.inst))]_vars

\* C2 witness: a second registration, offering another instance, has just
\* returned false and the first instance is still the one get_service returns
C2_Witness ==
    /\ last.op = "register_service" /\ last.val = "False"
    /\ get_service(last.key) # "None"
    /\ get_service(last.key) # last.inst

\* C4: commands are first-registration-wins: a register_command for a token
\* that is claimed returns false, whichever module asks, a call returns true
\* only for an unclaimed token, and the entry of a claimed token changes only
\* when a Registry.cleanup() that returns clears the map.
C4_FirstRegistrationWins ==
    [][/\ last'.op = "register_command" =>
             (/\ last'.st = "ret"
              /\ last'.val = (IF commands[last'.key] = Absent THEN "True" ELSE "False")
              /\ (last'.val = "True" =>
                     (/\ commands'[last'.key].module = last'.mod
                      /\ commands'[last'.key].handler = last'.inst)))
       /\ \A c \in Commands :
             commands[c] # Absent /\ commands'[c] # commands[c]
                => commands'[c] = Absent /\ last'.op = "cleanup" /\ last'.st = "ret"]_vars

\* C4 witness: the owning module itself has just been refused a second
\* registration of its command, with another handler
C4_Witness ==
    /\ last.op = "register_command" /\ last.val = "False"
    /\ commands[last.key].module = last.mod
    /\ commands[last.key].handler # last.inst

\* C5: register_handler is idempotent: the handler list of an event type
\* holds each (module, handler) pair at most once, and a call with a pair
\* that is already in the list returns false and leaves the list unchanged.
C5_HandlerIdempotent ==
    \A e \in EventTypes : \A i, j \in 1..Len(handlers[e]) :
        (handlers[e][i].module = handlers[e][j].module /\ handlers[e][i].handler = handlers[e][j].handler)
           => i = j

\* C6: unregister_service(name): a registered name has its hook (when the
\* service has one) invoked before the entry is removed, the entry is absent
\* afterwards and the call returns true, so the call never fails on the
\* removal itself; an absent name makes the call return false, with no hook
\* invoked and the registry unchanged.
C6_UnregisterContract ==
    /\ [](last.op = "unregister_service" =>
            (/\ last.val # "KeyError"
             /\ (last.val = "True" => ~Has(services, last.key))))
    /\ [][/\ \A n \in ServiceNames :
                (Has(services, n) /\ ~Has(services', n) /\ HasCleanup(Lookup(services, n).instance))
                   => Lookup(services, n).hooks >= 1
          /\ (last'.op = "unregister_service" /\ last'.val = "False") =>
                (/\ ~Has(services, last'.key)
                 /\ services' = services /\ commands' = commands
                 /\ handlers' = handlers /\ modules' = modules)]_vars

\* C7: when Registry.cleanup() has returned the registry holds no service, no
\* command, no event handler and no module entry, and every service it
\* removed had its hook invoked exactly once.
C7_CleanupLeavesNothing ==
    /\ []((last.op = "cleanup" /\ last.st = "ret") =>
            (/\ services = <<>>
             /\ \A c \in Commands : commands[c] = Absent
             /\ \A e \in EventTypes : handlers[e] = <<>>
             /\ \A m \in ModuleNames : modules[m] = Absent))
    /\ [][\A t \in Tasks : \A n \in ServiceNames :
            (task[t].op = "cleanup" /\ task'[t] # task[t]
               /\ Has(services, n) /\ ~Has(services', n) /\ HasCleanup(Lookup(services, n).instance))
              => Lookup(services, n).hooks = 1]_vars

\* C9: mutating operations on the same key are serialized: no two coroutines
\* are inside the locked section of the same key at the same time.
C9_Serialized ==
    \A t, u \in Tasks :
        (t # u /\ task[t].pc = "hook" /\ task[u].pc = "hook")
           => LockKeyOf(task[t].op, task[t].key) # LockKeyOf(task[u].op, task[u].key)

(***************************************************************************)
(* Properties of the kernel's Service Container and of shutdown.           *)
(***************************************************************************)
\* C3: names in the kernel's Service Container are unique: an instance stored
\* under a name is never replaced by a later registration (the name can only
\* be removed).
C3_ContainerNamesUnique ==
    [][\A n \in KServiceNames :
          (k_services[n] # "-" /\ k_services'[n] # "-") => k_services'[n] = k_services[n]]_vars

\* C8: when stop() on a running kernel returns, Registry.cleanup has run: no
\* service is left in the Registry, no service is left without its cleanup
\* hook invoked, and the command and handler maps are empty.
C8_StopRunsRegistryCleanup ==
    (k_last.op = "stop" /\ k_last.val = "stopped") =>
        /\ services = <<>>
        /\ \A c \in Commands : commands[c] = Absent
        /\ \A e \in EventTypes : handlers[e] = <<>>

(***************************************************************************)
(* Properties of the EventManager.                                         *)
(***************************************************************************)
\* C10: when a middleware returns no event, emit returns no event in that
\* same run: it invokes no handler and no further middleware, and the history
\* is left as it was.
C10_VetoStopsEmission ==
    [][(ev_last'.op = "emit" /\ ev_last'.veto # 0) =>
          /\ ev_last'.val = NoEvent
          /\ Len(ev_last'.trace) = ev_last'.veto
          /\ \A i \in 1..Len(ev_last'.trace) : ev_last'.trace[i] \in MiddlewareIds
          /\ history' = history
          /\ \E t \in Tasks : /\ emitter[t].pc = "middleware"
                              /\ emitter'[t].pc = "idle"
                              /\ ev_last'.trace = emitter[t].trace]_vars

\* an emission of an event that has subscribers was vetoed by the first of two
\* middleware
C10_Witness ==
    /\ ev_last.op = "emit"
    /\ ev_last.veto # 0
    /\ ev_handlers[ev_last.name] # <<>>
    /\ Len(middleware) = 2
    /\ ev_last.trace = <<middleware[1]>>

\* the handlers among the callables that an emission invoked, in order
HandlersOf(trace) == SelectSeq(trace, LAMBDA c : c \notin MiddlewareIds)

\* what a handler returns: a wait_for handler None, any other its own name
ResultOf(h) == IF IsWaitHandler(h) THEN "None" ELSE h

\* the return values of the handlers of the emission e that did not raise
ReturnedResults(e) ==
    LET idxs == SelectSeq([i \in 1..Len(e.trace) |-> i],
                          LAMBDA i : e.trace[i] \notin MiddlewareIds /\ e.out[i] = "ret")
    IN  [k \in 1..Len(idxs) |-> ResultOf(e.trace[idxs[k]])]

\* emit() returned in the step just taken, and no middleware vetoed the event
Delivered(l) == l.op = "emit" /\ l.veto = 0

C12_EveryHandlerOnce ==
    (Delivered(ev_last) /\ ~ev_last.e.changed) =>
        HandlersOf(ev_last.trace) = ev_last.e.start

\* C13: the history never holds more than max_history events; an emission
\* that is recorded is appended as the newest entry, and when the history was
\* at capacity exactly its oldest entry is removed.
C13_HistoryBounded ==
    /\ [](Len(history) <= max_history)
    /\ [][Delivered(ev_last') =>
             history' = IF Len(history) = max_history
                        THEN Tail(history) \o <<ev_last'.val>>
                        ELSE history \o <<ev_last'.val>>]_vars

\* an emission was recorded when the history was at capacity
C13_Witness ==
    /\ Delivered(ev_last)
    /\ ev_last.hlen = max_history
    /\ Len(history) = max_history
    /\ history[Len(history)] = ev_last.val

\* the step is a call of emit(name)
EmitCalled(name) ==
    /\ ev_calls' = ev_calls + 1
    /\ \/ ev_last'.op = "emit" /\ ev_last'.name = name
       \/ \E t \in Tasks : emitter[t].pc = "idle" /\ emitter'[t].pc # "idle"
                           /\ emitter'[t].name = name

\* how many times the event is in the sequence h
Occurrences(h, event) == Cardinality({i \in 1..Len(h) : h[i] = event})

\* C14: emit(name) called with no middleware and no subscriber for name
\* returns at once an event that is processed and has no results, and
\* get_history(name) holds that event once, having not held it before.
C14_EmitWithoutSubscribers ==
    [][\A name \in EventNames :
          (EmitCalled(name) /\ middleware = <<>> /\ ev_handlers[name] = <<>>) =>
              /\ ev_last'.op = "emit"
              /\ ev_last'.st = "ret"
              /\ ev_last'.val.name = name
              /\ ev_last'.val.processed
              /\ ev_last'.val.results = <<>>
              /\ Occurrences(HistoryOf(history, name), ev_last'.val) = 0
              /\ Occurrences(HistoryOf(history', name), ev_last'.val) = 1
              /\ \A n \in EventNames \ {name} :
                    Occurrences(HistoryOf(history', n), ev_last'.val) = 0]_vars

\* an emission returned without having invoked any callable, and its name has events
\* recorded before it
C14_Witness ==
    /\ Delivered(ev_last)
    /\ ev_last.trace = <<>>
    /\ ev_last.hlen > 0
    /\ Len(get_history(ev_last.name)) = 2

\* the locals of the emit() coroutine t after the step
After(t) == IF emitter'[t].pc = "idle" THEN ev_last'.e ELSE emitter'[t]

\* the middleware that the emit() coroutine t awaits raises in the step
MiddlewareRaisesIn(t) ==
    /\ emitter[t].pc = "middleware"
    /\ emitter'[t] # emitter[t]
    /\ Len(After(t).out) >= Len(emitter[t].trace)
    /\ After(t).out[Len(emitter[t].trace)] = "raise"

\* C17: when a middleware raises, the emission goes on with the event as it
\* was before that middleware: the next middleware of the list is invoked
\* with it; after the last middleware the first subscribed handler is
\* invoked with it, or with no handler the event is returned processed and
\* recorded.
C17_RaisingMiddlewareSkipped ==
    [][\A t \in Tasks :
          MiddlewareRaisesIn(t) =>
              LET e == emitter[t]
                  a == After(t)
              IN  /\ a.event.id = e.event.id
                  /\ a.event.data = e.event.data
                  /\ a.veto = 0
                  /\ IF e.idx < Len(middleware)
                     THEN /\ a.pc = "middleware"
                          /\ a.idx = e.idx + 1
                          /\ a.cur = middleware[e.idx + 1]
                          /\ a.trace = Append(e.trace, middleware[e.idx + 1])
                     ELSE IF ev_handlers[e.name] # <<>>
                     THEN /\ a.pc = "handler"
                          /\ a.cur = ev_handlers[e.name][1]
                          /\ a.trace = Append(e.trace, ev_handlers[e.name][1])
                     ELSE /\ emitter'[t].pc = "idle"
                          /\ Delivered(ev_last')
                          /\ ev_last'.val.processed
                          /\ ev_last'.val.data = e.event.data
                          /\ history'[Len(history')] = ev_last'.val]_vars

\* the first middleware raised, the second one was invoked and changed the
\* event, and a handler is being invoked with the changed event
C17_Witness ==
    \E t \in Tasks :
        /\ emitter[t].pc = "handler"
        /\ Len(emitter[t].trace) = 3
        /\ emitter[t].out = <<"raise", "ret">>
        /\ Contains(middleware, emitter[t].trace[1])
        /\ Contains(middleware, emitter[t].trace[2])
        /\ emitter[t].trace[3] = ev_handlers[emitter[t].name][1]
        /\ emitter[t].event.data = "d1"

(***************************************************************************)
(* Properties of wait_for.                                                 *)
(***************************************************************************)
\* the wait_for() coroutine t ends in the step
WaitEnds(t) == waiter[t].pc \in {"resolved", "cancelled"} /\ waiter'[t].pc = "done"

\* C15: a wait_for whose timeout expired on an event that did not fire ends
\* with a timeout error, and its one-shot handler is subscribed nowhere
\* afterwards.
C15_TimeoutEndsWithTimeoutError ==
    [][\A t \in Tasks :
          (WaitEnds(t) /\ waiter[t].pc = "cancelled") =>
              /\ ev_last'.op = "wait_for"
              /\ ev_last'.st = "TimeoutError"
              /\ \A n \in EventNames : ~Contains(ev_handlers'[n], WaitHandler(t))]_vars

\* the subscriptions are what the wait_for() call of t made them
OnlyWaitSubscribed(t) ==
    ev_handlers = [waiter[t].before EXCEPT ![waiter[t].name] = Append(@, WaitHandler(t))]

\* C15 (the part that holds): when nothing but the wait_for call itself has
\* changed the subscriptions, the expired wait_for ends with TimeoutError and
\* the bus holds exactly the subscriptions it held before the call.
C15_QuietTimeoutRestores ==
    [][\A t \in Tasks :
          (WaitEnds(t) /\ waiter[t].pc = "cancelled" /\ OnlyWaitSubscribed(t)) =>
              /\ ev_last'.op = "wait_for"
              /\ ev_last'.st = "TimeoutError"
              /\ ev_handlers' = waiter[t].before]_vars

\* a wait_for on a name that has a subscriber timed out and restored the subscriptions
C15_QuietWitness ==
    /\ ev_last.op = "wait_for"
    /\ ev_last.st = "TimeoutError"
    /\ waiter[ev_last.w].before[ev_last.name] # <<>>
    /\ ev_handlers = waiter[ev_last.w].before

\* the emit() coroutine t returns in the step
EmitReturns(t) == emitter[t].pc # "idle" /\ emitter'[t].pc = "idle"

\* the wait_for() of w was subscribed when the handler loop of emission l started
WaitingAtStart(l, w) == Contains(l.e.start, WaitHandler(w))

\* C16: when an emission of a name returns (no other call having changed the
\* subscriptions during it), every wait_for that was pending on the name when
\* the emission started has completed with that event, and its one-shot
\* handler is subscribed nowhere.
C16_EveryPendingWaitCompletes ==
    [][\A t \in Tasks :
          (EmitReturns(t) /\ Delivered(ev_last') /\ ~ev_last'.e.changed) =>
              \A w \in Tasks :
                  (WaitingAtStart(ev_last', w) /\ waiter'[w].pc \in {"pending", "resolved"}) =>
                      /\ waiter'[w].pc = "resolved"
                      /\ waiter'[w].event.id = ev_last'.val.id
                      /\ \A n \in EventNames : ~Contains(ev_handlers'[n], WaitHandler(w))]_vars

(***************************************************************************)
(* Properties of module loading.                                           *)
(***************************************************************************)
\* the _load_module calls that ended in the step: a run of init() ended them
LoadsEnded ==
    IF k_task' # k_task THEN {k_last'.loads[i] : i \in 1..Len(k_last'.loads)} ELSE {}

\* C18: a _load_module call returns if and only if the setup() it awaited
\* returned, and then the name is in the loaded-module map; when setup()
\* raises the call raises that error, the name is not in the map and
\* get_module(name) reports absent; a name enters the map only by a load of
\* that name that returned.
C18_InsertedIffSetupReturned ==
    [][/\ \A l \in LoadsEnded :
             /\ (l.st = "ret") <=> (l.setup = "ret")
             /\ (l.st = "ret") =>
                   /\ KHas(k_modules', l.name)
                   /\ get_module(l.name)' # 0
             /\ (l.setup = "raise") =>
                   /\ l.st = "raise"
                   /\ l.err = "SetupError"
             /\ (l.st = "raise") =>
                   /\ ~KHas(k_modules', l.name)
                   /\ get_module(l.name)' = 0
       /\ \A n \in {LoadOrder[i] : i \in 1..Len(LoadOrder)} :
             (KHas(k_modules', n) /\ ~KHas(k_modules, n)) =>
                 \E l \in LoadsEnded : l.name = n /\ l.st = "ret"]_vars

\* the setup() of system.admin raised after the setup() of the two modules
\* before it returned: they are in the map and system.admin is not
C18_Witness ==
    /\ k_last.loads # <<>>
    /\ k_last.loads[1].name = "system.admin"
    /\ k_last.loads[1].setup = "raise"
    /\ k_last.loads[1].st = "raise"
    /\ KKeys(k_modules) = <<"system.database", "system.security">>
    /\ get_module("system.admin") = 0

\* C19: a load returns only for a module with exactly one ModuleInterface
\* subclass; with any other number of them the load raises, none is
\* instantiated and set up, and the name is not in the loaded-module map.
C19_ExactlyOneClass ==
    \A i \in 1..Len(k_last.loads) :
        LET l == k_last.loads[i]
        IN  /\ (l.st = "ret") => l.classes = 1
            /\ (l.classes # 1) =>
                  /\ l.st = "raise"
                  /\ l.setup = "-"
                  /\ ~KHas(k_modules, l.name)

\* position of a module in the order in which _load_modules attempts them
Position(name) == IndexOf(LoadOrder, name)

\* C20: when the load of system.database or of system.security fails, that
\* run of init raises the load's error: the failed load is the last load of
\* the run, init has ended, and neither in this run nor before was a module
\* later in the order attempted or loaded; loads are only made by init.
C20_CriticalFailureAborts ==
    [][/\ \A l \in LoadsEnded :
                 (l.st = "raise" /\ l.name \in {"system.database", "system.security"}) =>
                     /\ l = k_last'.loads[Len(k_last'.loads)]
                     /\ k_last'.op = "init"
                     /\ k_last'.st = "raise"
                     /\ k_last'.val = l.err
                     /\ \A t \in Tasks : k_task'[t].op # "init"
                     /\ \A j \in 1..Len(k_last'.loads) :
                           Position(k_last'.loads[j].name) <= Position(l.name)
                     /\ \A j \in 1..Len(k_modules') :
                           Position(k_modules'[j].name) < Position(l.name)
       /\ (LoadsEnded # {}) => \E t \in Tasks : k_task[t].op = "init" /\ k_task'[t] # k_task[t]]_vars

\* init raised because the setup() of system.security raised, after
\* system.database was loaded
C20_Witness ==
    /\ k_last.op = "init"
    /\ k_last.st = "raise"
    /\ Len(k_last.loads) = 1
    /\ k_last.loads[1].name = "system.security"
    /\ k_last.loads[1].setup = "raise"
    /\ KKeys(k_modules) = <<"system.database">>

\* the modules of the load order that are not in failed, in that order
Succeeded(failed) == SelectSeq(LoadOrder, LAMBDA n : ~Contains(failed, n))

\* C21: when init returns, every module of the load order was attempted, in
\* that order, and the loaded-module map holds exactly those whose load did
\* not fail; init raises after a failed load only when the failed module is
\* system.database or system.security.
C21_FailuresIsolated ==
    /\ []((k_last.op = "init" /\ k_last.st = "ret") =>
             /\ k_last.trace = LoadOrder
             /\ KKeys(k_modules) = Succeeded(k_last.failed))
    /\ [][(k_task' # k_task /\ k_last'.op = "init" /\ k_last'.st = "raise"
              /\ k_last'.loads # <<>>) =>
             k_last'.loads[Len(k_last'.loads)].name \in {"system.database", "system.security"}]_vars

\* init returned after the load of system.admin failed: user.echo was still
\* loaded
C21_Witness ==
    /\ k_last.op = "init"
    /\ k_last.st = "ret"
    /\ k_last.failed = <<"system.admin">>
    /\ KKeys(k_modules) = <<"system.database", "system.security", "user.echo">>

(***************************************************************************)
(* Properties of start and stop.                                           *)
(***************************************************************************)
\* op is called in the step: it returns or raises at once, or suspends
Called(op) ==
    /\ k_calls' = k_calls + 1
    /\ \E t \in Tasks :
          /\ k_task[t].pc = "idle"
          /\ \/ k_task'[t].op = op
             \/ k_task'[t].pc = "idle" /\ k_last'.op = op

\* C23: stop() called on a kernel that is not running returns at once: it
\* emits no event, awaits no cleanup and no bot call, and leaves is_running,
\* the module map, the service container and the bot as they were.
C23_StopIdempotent ==
    [][(Called("stop") /\ ~k_running) =>
          /\ k_last'.op = "stop" /\ k_last'.st = "ret" /\ k_last'.val = "None"
          /\ k_last'.trace = <<>>
          /\ UNCHANGED <<k_running, k_modules, k_services, k_bot, k_token, k_task,
                         history, ev_calls>>]_vars

\* a stop() that did nothing right after a stop() that completed
C23_Witness ==
    /\ k_last.op = "stop" /\ k_last.val = "None"
    /\ history # <<>>
    /\ history[Len(history)].name = "after_stop"
    /\ ~k_running
    /\ k_modules = <<>>
    /\ \A t \in Tasks : k_task[t].pc = "idle"

\* a stop() that found the kernel running returns in the step
StopEnds ==
    /\ k_last'.op = "stop" /\ k_last'.val = "stopped"
    /\ \/ Called("stop")
       \/ \E t \in Tasks : k_task[t].op = "stop" /\ k_task'[t].pc = "idle"

\* C24: a stop() that found the kernel running does not raise, and when it
\* returns the module map and the service container are empty and is_running
\* is false.
C24_StopEndsClean ==
    [][StopEnds =>
          /\ k_last'.st = "ret"
          /\ k_modules' = <<>>
          /\ \A n \in KServiceNames : k_services'[n] = "-"
          /\ ~k_running']_vars

\* C25: start() called on a running kernel or with no token raises at once:
\* it emits no event, awaits no register_handlers and no bot call, and leaves
\* is_running and everything else as it was.
C25_StartRejected ==
    [][(Called("start") /\ (k_running \/ k_token \notin {"tok"})) =>
          /\ k_last'.op = "start" /\ k_last'.st = "raise"
          /\ k_last'.val = IF k_running THEN "RuntimeError" ELSE "ValueError"
          /\ k_last'.trace = <<>>
          /\ UNCHANGED <<k_running, k_modules, k_services, k_bot, k_token, k_task,
                         history, ev_calls>>]_vars

\* start() was rejected on a running kernel
C25_Witness ==
    /\ k_last.op = "start" /\ k_last.st = "raise" /\ k_last.val = "RuntimeError"
    /\ k_running
    /\ k_modules # <<>>

\* the call of coroutine t awaits pc, the step it awaits raises in the step
RaisesAt(t, pc) ==
    /\ k_task[t].pc = pc
    /\ k_task'[t] # k_task[t]
    /\ k_last'.raised = k_task[t].trace[Len(k_task[t].trace)]

\* C26: a start() that returns has emitted before_start, then awaited
\* register_handlers of every module that was loaded when its loop began, in
\* load order, then emitted after_start, then started the bot and the
\* polling; a register_handlers that raises is followed by that of the next
\* module, or after the last module by after_start and the start of the bot.
C26_StartSequence ==
    /\ [][(k_task' # k_task /\ k_last'.op = "start" /\ k_last'.st = "ret") =>
             /\ k_last'.size <= Len(k_modules')
             /\ k_last'.trace = <<"before_start", "bot.initialize">>
                                \o SubSeq(KKeys(k_modules'), 1, k_last'.size)
                                \o <<"after_start", "bot.start", "updater.start_polling">>
             /\ k_running' /\ k_bot'.polling]_vars
    /\ [][\A t \in Tasks :
             (k_task[t].pc = "start_bot" /\ k_task'[t].pc \in {"register_handlers", "bot_start"}) =>
                 /\ k_task'[t].size = Len(k_modules')
                 /\ k_modules' = k_modules]_vars
    /\ [][\A t \in Tasks :
             (RaisesAt(t, "register_handlers") /\ Len(k_modules) = k_task[t].size) =>
                 IF k_task[t].idx < k_task[t].size
                 THEN /\ k_task'[t].pc = "register_handlers"
                      /\ k_task'[t].cur = k_modules[k_task[t].idx + 1].name
                 ELSE /\ k_task'[t].pc = "bot_start"
                      /\ history'[Len(history')].name = "after_start"
                      /\ k_running']_vars

\* a start() returned after register_handlers of four modules
C26_Witness ==
    /\ k_last.op = "start" /\ k_last.st = "ret"
    /\ k_last.size = Len(LoadOrder)
    /\ Len(k_last.trace) = Len(LoadOrder) + 5
    /\ k_running

(***************************************************************************)
(* Properties of reload_module.                                            *)
(***************************************************************************)
\* a reload_module call ends in this step
ReloadEnds ==
    /\ k_last'.op = "reload_module" /\ k_last'.st # "-"
    /\ \/ Called("reload_module")
       \/ \E t \in Tasks : k_task[t].op = "reload_module" /\ k_task'[t].pc = "idle"

\* a reload_module call takes a step in which it does not end
ReloadGoesOn ==
    \E t \in Tasks : k_task'[t].op = "reload_module" /\ k_task'[t] # k_task[t]

ReloadErrors == {"Module not found", "CleanupError", "KeyError", "LoadError", "SetupError"}

InstancesIn(d) == {d[i].inst : i \in 1..Len(d)}

\* C27: when the cleanup() awaited by reload_module raises, the call does not
\* raise and the old instance is no longer in the loaded-module map when the
\* call ends.
C27_UnloadRemovesEntry ==
    [][(ReloadEnds /\ k_last'.raised = "cleanup") =>
          /\ k_last'.st = "ret"
          /\ k_last'.inst \notin InstancesIn(k_modules')]_vars

\* C28: a reload_module call never raises; it emits nothing before the step
\* in which it ends and exactly one event in that step, module_reloaded with
\* the name when it returns True and module_reload_error with the name and
\* the error text when it returns False; a call for a name that is not loaded
\* ends at once with module_reload_error and False and awaits no cleanup and
\* no setup, and a call for a loaded name does not.
C28_OneNotification ==
    [][/\ ReloadGoesOn => ev_calls' = ev_calls /\ history' = history
       /\ ReloadEnds =>
             /\ k_last'.st = "ret" /\ k_last'.val \in {"True", "False"}
             /\ ev_calls' = ev_calls + 1
             /\ LET e == history'[Len(history')]
                    n == Len(k_last'.trace)
                IN  /\ e.id = ev_calls'
                    /\ \A i \in 1..(n - 1) : k_last'.trace[i] \in {"cleanup", "setup"}
                    /\ k_last'.trace[n] = e.name
                    /\ k_last'.val = "True" => e.name = "module_reloaded" /\ e.data = k_last'.cur
                    /\ k_last'.val = "False" =>
                          /\ e.name = "module_reload_error"
                          /\ \E error \in ReloadErrors : e.data = ErrorData(k_last'.cur, error)
       /\ \A t \in Tasks, name \in ReloadNames :
             (Called("reload_module") /\ k_task[t].pc = "idle" /\ k_task'[t].pc # "idle"
                 /\ k_task'[t].op = "reload_module") => KHas(k_modules, k_task'[t].cur)
       /\ (Called("reload_module") /\ ReloadEnds) =>
             /\ ~KHas(k_modules, k_last'.cur)
             /\ k_last'.val = "False" /\ k_last'.trace = <<"module_reload_error">>
             /\ k_last'.loads = <<>>
             /\ history'[Len(history')].data = ErrorData(k_last'.cur, "Module not found")
             /\ k_modules' = k_modules]_vars

C28_Witness ==
    /\ k_last.op = "reload_module" /\ k_last.val = "False" /\ k_last.raised = "setup"
    /\ history[Len(history)].name = "module_reload_error"
    /\ history[Len(history)].data = "user.echo: SetupError"

\* C29: a reload_module call that returns True awaited cleanup() once, on the
\* instance that the map held under the name when the call was made, then
\* setup() once, on an instance that was never in the map before, and at its
\* return the map holds that new instance under the name and the other
\* entries are as they were; a call for a name that is not loaded awaits no
\* setup().
C29_ReloadReplacesInstance ==
    [][/\ (ReloadEnds /\ k_last'.val = "True") =>
             /\ k_last'.trace = <<"cleanup", "setup", "module_reloaded">>
             /\ Len(k_last'.loads) = 1
             /\ k_last'.loads[1].name = k_last'.cur /\ k_last'.loads[1].st = "ret"
             /\ k_last'.idx # k_last'.inst
             /\ k_last'.idx \notin InstancesIn(k_modules)
             /\ KHas(k_modules', k_last'.cur)
             /\ InstanceOf(k_modules', k_last'.cur) = k_last'.idx
             /\ Cardinality({i \in 1..Len(k_modules') : k_modules'[i].name = k_last'.cur}) = 1
             /\ KDel(k_modules', k_last'.cur) = KDel(k_modules, k_last'.cur)
       /\ \A t \in Tasks :
             /\ (Called("reload_module") /\ k_task[t].pc = "idle"
                    /\ k_task'[t].op = "reload_module") =>
                   /\ k_task'[t].trace = <<"cleanup">>
                   /\ k_task'[t].inst = InstanceOf(k_modules, k_task'[t].cur)
             /\ (k_task[t].op = "reload_module" /\ k_task'[t].op = "reload_module") =>
                   /\ k_task'[t].inst = k_task[t].inst /\ k_task'[t].idx = k_task[t].idx
                   /\ k_task'[t].cur = k_task[t].cur
             /\ (k_task[t].op = "reload_module" /\ k_task'[t].pc = "idle"
                    /\ k_task'[t] # k_task[t]) =>
                   /\ k_last'.inst = k_task[t].inst /\ k_last'.idx = k_task[t].idx
                   /\ k_last'.cur = k_task[t].cur
       /\ (Called("reload_module") /\ ReloadEnds) =>
             /\ ~Contains(k_last'.trace, "setup") /\ k_last'.loads = <<>>]_vars

C29_Witness ==
    /\ k_last.op = "reload_module" /\ k_last.val = "True"
    /\ k_last.cur = "system.database"
    /\ KKeys(k_modules) = <<"system.security", "system.admin", "user.echo", "system.database">>
    /\ InstanceOf(k_modules, "system.database") = k_last.idx
    /\ k_last.idx > Len(LoadOrder) /\ k_last.inst = 1

(***************************************************************************)
(* Properties of stop's loop over the modules.                             *)
(***************************************************************************)
\* C22: a stop() called on a running kernel awaits cleanup() of every module
\* that is loaded when its loop begins, last loaded first: the first cleanup
\* is that of the last key of the map, and after the cleanup of a module has
\* ended, returned or raised, the next step of stop() awaits that of the
\* module loaded just before it, down to the first.
C22_ReverseLoadOrder ==
    [][\A t \in Tasks :
          /\ (k_calls' = k_calls + 1 /\ k_task[t].pc = "idle" /\ k_task'[t].op = "stop"
                 /\ k_modules # <<>>) =>
                LET keys == Reverse(KKeys(k_modules))
                IN  /\ k_task'[t].pc = "module_cleanup"
                    /\ k_task'[t].cur = Head(keys) /\ k_task'[t].todo = Tail(keys)
          /\ (k_task[t].op = "stop" /\ k_task[t].pc = "module_cleanup"
                 /\ k_task'[t] # k_task[t] /\ k_task[t].todo # <<>>) =>
                /\ k_task'[t].pc = "module_cleanup"
                /\ k_task'[t].cur = Head(k_task[t].todo)
                /\ k_task'[t].todo = Tail(k_task[t].todo)]_vars

(***************************************************************************)
(* Properties of BaseService.                                              *)
(***************************************************************************)
\* the worker tasks that wait in get() on queue object q or process an item
\* they took from it
ConsumersOf(q) ==
    {w \in Live : sv_worker[w].pc \in {"get", "item"} /\ sv_worker[w].q = q}

\* C30: at most one worker task consumes the queue the service holds: in no
\* state do two live worker tasks wait in get() on it or process an item
\* taken from it.
C30_OneWorker == sv_queue # 0 => Cardinality(ConsumersOf(sv_queue)) <= 1

\* a call of op on the service is made in this step
SvCalled(op) == sv_calls' = sv_calls + 1 /\ sv_last'.op = op

\* C31: add_task on a service that is not running raises RuntimeError and
\* leaves every queue as it was; on a running service it returns and the
\* queue the service holds has the item appended once, one more unfinished
\* task, and the other queues are as they were.
C31_AddTaskGuarded ==
    [][SvCalled("add_task") =>
          IF ~sv_running
          THEN /\ sv_last'.st = "raise" /\ sv_last'.val = "RuntimeError"
               /\ sv_q' = sv_q
          ELSE /\ sv_last'.st = "ret"
               /\ \E item \in Items :
                     sv_q'[sv_queue].items = Append(sv_q[sv_queue].items, item)
               /\ sv_q'[sv_queue].unfinished = sv_q[sv_queue].unfinished + 1
               /\ \A q \in Workers : q # sv_queue => sv_q'[q] = sv_q[q]]_vars

C31_Witness ==
    /\ sv_last.op = "add_task" /\ sv_last.st = "raise"
    /\ ~sv_running /\ sv_task[1].pc = "join"
    /\ sv_q[1].items = <<"i1">>

\* worker task w is resumed in this step and the _process_item it awaited
\* ends as st
ItemEnds(w, st) ==
    /\ sv_worker[w].pc = "item" /\ sv_worker'[w] # sv_worker[w]
    /\ sv_last'.op = "_process_item" /\ sv_last'.st = st

\* C32: when _process_item(item) raises, the worker task does not end in an
\* error: errors grows by one, last_error is set, processed_items is
\* unchanged, the queue the item was taken from has one unfinished task
\* less (and one less for every item the worker discards in the same step
\* when the service is not running), and while the service is running the
\* worker awaits the next item: it is in get(), or in _process_item with the
\* item that was first in the queue.
C32_ItemErrorContained ==
    [][\A w \in Workers :
          ItemEnds(w, "raise") =>
             /\ sv_worker'[w].end # "raise"
             /\ sv_stats'.errors = sv_stats.errors + 1
             /\ sv_stats'.last_error = "error"
             /\ sv_stats'.processed_items = sv_stats.processed_items
             /\ sv_q'[sv_worker[w].q].unfinished =
                   sv_q[sv_worker[w].q].unfinished - 1
                      - (IF sv_running THEN 0 ELSE Len(sv_q[sv_worker[w].q].items))
             /\ sv_running =>
                   IF sv_q[sv_queue].items = <<>>
                   THEN sv_worker'[w].pc = "get"
                   ELSE /\ sv_worker'[w].pc = "item"
                        /\ sv_worker'[w].item = Head(sv_q[sv_queue].items)]_vars

\* a stop() that found the service running returns in this step
ServiceStopEnds ==
    /\ sv_last'.op = "stop"
    /\ \E t \in Tasks : sv_task[t].pc # "idle" /\ sv_task'[t].pc = "idle"

\* C33: a stop() that found the service running does not raise, and when it
\* returns the service is not running, no worker task is alive and the
\* queue the service holds is empty.
C33_StopEndsStopped ==
    [][ServiceStopEnds =>
          /\ sv_last'.st = "ret"
          /\ ~sv_running'
          /\ \A w \in Workers : sv_worker'[w].pc \in {"none", "done"}
          /\ sv_q'[sv_queue'].items = <<>>]_vars

\* worker task w is resumed in this step
WorkerStepped(w) ==
    /\ sv_worker'[w] # sv_worker[w]
    /\ sv_task' = sv_task /\ sv_calls' = sv_calls

\* C40: while the service is marked not running a worker starts processing
\* an item only when it was waiting in get() and is woken with it, never at
\* the head of its loop; a worker that ends then leaves the queue empty, the
\* discarded items marked done and the counters as its own last item left
\* them; and when a stop() that found the service running returns, the
\* queue it waited for is empty and has no unfinished task.
C40_QueuedItemsDiscarded ==
    [][/\ \A w \in Workers :
             /\ (WorkerStepped(w) /\ ~sv_running /\ sv_worker'[w].pc = "item") =>
                   sv_worker[w].pc = "get"
             /\ (WorkerStepped(w) /\ ~sv_running /\ sv_worker[w].pc \in {"new", "item"}
                    /\ ~sv_worker[w].cancel) =>
                   /\ sv_worker'[w].pc = "done" /\ sv_worker'[w].end = "ret"
                   /\ sv_q'[sv_queue].items = <<>>
                   /\ sv_q'[sv_queue].unfinished =
                         sv_q[sv_queue].unfinished - Len(sv_q[sv_queue].items)
                            - (IF sv_worker[w].pc = "item" THEN 1 ELSE 0)
                   /\ sv_stats'.processed_items + sv_stats'.errors =
                         sv_stats.processed_items + sv_stats.errors
                            + (IF sv_worker[w].pc = "item" THEN 1 ELSE 0)
       /\ \A t \in Tasks :
             (sv_last'.op = "stop" /\ sv_task[t].pc # "idle" /\ sv_task'[t].pc = "idle") =>
                sv_q'[sv_task[t].q] = NewQueue]_vars

(***************************************************************************)
(* Properties of reload_module and stop together.                          *)
(***************************************************************************)
\* the reload_module call that k_last describes awaited the old instance's
\* cleanup(), which returned, and its load then failed
ReloadLoadFailed(l) ==
    /\ l.op = "reload_module"
    /\ l.trace # <<>> /\ l.trace[1] = "cleanup" /\ l.raised # "cleanup"
    /\ Len(l.loads) = 1 /\ l.loads[1].st = "raise"

\* C38: when reload_module has awaited the old instance's cleanup(), which
\* returned, and the load of the new instance fails, before or in its
\* setup(), the call returns False and at its return the name is not in the
\* loaded-module map, get_module(name) reports absent, and neither the old
\* nor the new instance is in the map; the other entries are as they were.
C38_NoRollback ==
    /\ [](ReloadLoadFailed(k_last) =>
             /\ k_last.st = "ret" /\ k_last.val = "False"
             /\ k_last.loads[1].name = k_last.cur
             /\ get_module(k_last.cur) = 0
             /\ k_last.inst \notin InstancesIn(k_modules)
             /\ k_last.idx \notin InstancesIn(k_modules))
    /\ [][(ReloadEnds /\ ReloadLoadFailed(k_last')) =>
             /\ ~KHas(k_modules', k_last'.cur)
             /\ k_modules' = KDel(k_modules, k_last'.cur)]_vars

C38_Witness ==
    /\ ReloadLoadFailed(k_last) /\ k_last.raised = "setup"
    /\ k_last.cur = "user.echo" /\ k_last.inst = 4
    /\ KKeys(k_modules) = <<"system.database", "system.security", "system.admin">>

\* C37: a reload_module that returns True leaves the name as the last key of
\* the loaded-module map, the other keys in the order they had; a stop()
\* called on a running kernel takes the keys last to first: the cleanup it
\* awaits first is that of the last key, and each further cleanup it awaits
\* is that of the key before, so a module reloaded last is torn down first.
C37_ReloadedTornDownFirst ==
    [][/\ (ReloadEnds /\ k_last'.val = "True") =>
             KKeys(k_modules') = Append(KKeys(KDel(k_modules, k_last'.cur)), k_last'.cur)
       /\ \A t \in Tasks :
             /\ (k_calls' = k_calls + 1 /\ k_task[t].pc = "idle" /\ k_task'[t].op = "stop"
                    /\ k_modules # <<>>) =>
                   /\ k_task'[t].pc = "module_cleanup"
                   /\ k_task'[t].cur = k_modules[Len(k_modules)].name
                   /\ k_task'[t].todo = Tail(Reverse(KKeys(k_modules)))
             /\ (k_task[t].op = "stop" /\ k_task[t].pc = "module_cleanup"
                    /\ k_task'[t].op = "stop" /\ k_task'[t].pc = "module_cleanup"
                    /\ k_task'[t] # k_task[t]) =>
                   /\ k_task[t].todo # <<>>
                   /\ k_task'[t].cur = Head(k_task[t].todo)
                   /\ k_task'[t].todo = Tail(k_task[t].todo)]_vars

C37_Witness ==
    \E t \in Tasks :
        /\ k_task[t].op = "stop" /\ k_task[t].pc = "module_cleanup"
        /\ k_task[t].trace = <<"before_stop", "system.security", "user.echo", "system.admin">>
        /\ k_task[t].todo = <<"system.database">>
        /\ InstanceOf(k_modules, "system.security") > Len(LoadOrder)

\* C34: no instance in the loaded-module map has had its cleanup() invoked
\* more than once, and an instance leaves the map, removed or replaced, only
\* after its cleanup() was invoked.
C34_CleanupOncePerInstance ==
    /\ [](\A i \in 1..Len(k_modules) : k_modules[i].cleaned <= 1)
    /\ [][\A i \in 1..Len(k_modules) :
             k_modules[i].inst \notin InstancesIn(k_modules') =>
                k_modules[i].cleaned >= 1]_vars

(***************************************************************************)
(* Properties of the kernel after stop() has returned.                     *)
(***************************************************************************)
\* init() has set the token, and stop()'s finally has emptied the service
\* container: a stop() that found the kernel running has returned
KernelStopped ==
    /\ InitReturned /\ k_token # "None"
    /\ \A n \in KServiceNames : k_services[n] = "-"

\* the cleanups that the call awaited
CleanupsOf(c) == {i \in 1..Len(c.trace) : \E j \in 1..Len(LoadOrder) : c.trace[i] = LoadOrder[j]}

\* C35: once stop() has returned the module map stays empty, also when a
\* reload_module was in flight while stop() ran; and a stop() that returns
\* has awaited the cleanup of every module that was loaded when its loop
\* began, also with a reload_module in flight.
C35_StoppedStaysEmpty ==
    /\ [](KernelStopped => k_modules = <<>>)
    /\ [][StopEnds => Cardinality(CleanupsOf(k_last')) = k_last'.size]_vars

\* C36: the platform connection is started only while the kernel runs: in
\* every state in which no stop() is in flight and the application has been
\* started or its updater is polling, and has not been stopped since,
\* is_running is true.  (While a stop() is in flight is_running is false
\* before the connection is stopped, by the order of its statements.)
C36_ConnectionOnlyWhileRunning ==
    ((\A t \in Tasks : k_task[t].op # "stop") /\ (k_bot.running \/ k_bot.polling))
        => k_running

(***************************************************************************)
(* Properties of a kernel whose init or start failed.                      *)
(***************************************************************************)
\* the call that ended last is an init() that raised, or a start() that
\* raised from its try block (lines 190-193)
Aborted(l) ==
    /\ l.st = "raise"
    /\ \/ l.op = "init"
       \/ l.op = "start" /\ l.trace # <<>>

\* C39: with the calls made one after another, when init() raises or start()
\* raises from its try block, is_running is false and no entry of the module
\* map is removed or has its cleanup invoked; after an init() that raised the
\* map holds, in load order, the modules it attempted whose load did not
\* fail; and a stop() called next returns at once, invokes no cleanup and
\* leaves the map as it was.
C39_AbortLeavesModules ==
    /\ [][\A t \in Tasks :
             (k_task[t].op \in {"init", "start"} /\ k_task'[t].pc = "idle"
                 /\ k_last'.st = "raise") =>
                /\ ~k_running'
                /\ Len(k_modules') >= Len(k_modules)
                /\ \A i \in 1..Len(k_modules) : k_modules'[i] = k_modules[i]
                /\ k_task[t].op = "init" =>
                      KKeys(k_modules') =
                          SelectSeq(k_last'.trace, LAMBDA n : ~Contains(k_last'.failed, n))]_vars
    /\ [][(Aborted(k_last) /\ Called("stop")) =>
             /\ k_last'.op = "stop" /\ k_last'.st = "ret" /\ k_last'.val = "None"
             /\ k_last'.trace = <<>>
             /\ k_modules' = k_modules
             /\ ~k_running']_vars

\* init() raised on system.security with system.database loaded, and a
\* stop() has returned since: the module is still in the map
C39_Witness ==
    /\ k_last.op = "stop" /\ k_last.st = "ret" /\ k_last.val = "None"
    /\ KKeys(k_modules) = <<"system.database">>
    /\ k_modules[1].cleaned = 0
    /\ ~k_running
    /\ NoCallInFlight

====
